---------------------------- MODULE Spec2Model ----------------------------
(***************************************************************************)
(* The reflection virtual machine of packages/type/src/reflection/         *)
(* processor.ts: resolveRuntimeType, the ProcessorRegistry and the         *)
(* Processor (stack, frames, program counter, result anchor).              *)
(*                                                                         *)
(* Values.  A runtime stack entry is a record.  A type node has a `kind`   *)
(* field; a raw JavaScript value has none: [n |-> 3] is the number 3,      *)
(* [b |-> TRUE] a boolean, [s |-> "T"] a string, [thunk |-> "Tree"] a      *)
(* function returning the packed program Tree, [clsThunk |-> "Node"] a     *)
(* function returning the class Node, [undef |-> TRUE] is undefined.       *)
(* Nodes are values, with one exception: the result anchor of a Processor  *)
(* (Processor.resultType) is an object that is handed out before it is     *)
(* filled, so it lives in `heap` and the stack holds a reference           *)
(* [kind |-> "ref", id |-> i] to it.  Two references denote the same       *)
(* object exactly when their ids are equal.                                *)
(*                                                                         *)
(* Two more parts of the repository have a state machine of their own:     *)
(* the dependency injector of packages/injector/src/injector.ts (SpecDI)   *)
(* and the file store of src/fs.ts (SpecFS).                               *)
(***************************************************************************)
EXTENDS Integers, Sequences, FiniteSets, TLC

VARIABLES
    procs,      \* the chain of nested Processor.run activations, innermost last
    registry,   \* the ProcessorRegistry objects: "user" (held by the caller), "own" (made by a Processor)
    heap,       \* the result anchors, by Processor id
    cache,      \* o.__type of every packed array: the cached node, or Undefined
    nextId,     \* the number of the next Processor to be constructed
    call,       \* the top-level resolveRuntimeType call in progress or just ended
    results,    \* the outcomes of the top-level calls made so far, oldest first
    resolved,   \* Injector.resolved of every injector, by token (Undefined: not built)
    creating,   \* the `creating` flag of every provider of every injector's retriever
    CircularDetector,   \* the module-level array of the tokens being built
    instances,  \* the objects the providers have built, by number
    gets,       \* the outcomes of the Injector.get calls made so far, oldest first
    database,   \* the File records of the database
    disk,       \* the md5s whose content is stored locally
    tasks       \* the FS calls in progress, each at one of its await points

rvmVars == <<procs, registry, heap, cache, nextId, call, results>>

diVars == <<resolved, creating, CircularDetector, instances, gets>>

fsVars == <<database, disk, tasks>>

vars == <<rvmVars, diVars, fsVars>>

-----------------------------------------------------------------------------
(* Bounds of the model *)

\* slots of a Processor's stack (the source preallocates 128 and grows on demand)
StackSlots == 14
\* nested Processor runs the model follows before it stops extending the chain
MaxDepth == 4
\* top-level resolveRuntimeType calls in one behaviour
MaxCalls == 2

-----------------------------------------------------------------------------
(* Raw values and type nodes *)

Undefined == [undef |-> TRUE]
Num(n) == [n |-> n]
Bool(b) == [b |-> b]
Str(s) == [s |-> s]

IsUndefined(e) == "undef" \in DOMAIN e
IsNumber(e) == "n" \in DOMAIN e
IsFunction(e) == "thunk" \in DOMAIN e \/ "clsThunk" \in DOMAIN e

T(k) == [kind |-> k]
Never == T("never")
Lit(v) == [kind |-> "literal", literal |-> v]
Union(ts) == [kind |-> "union", types |-> ts]
Ref(i) == [kind |-> "ref", id |-> i]

IsRef(e) == "kind" \in DOMAIN e /\ e.kind = "ref"

\* the kind of a stack entry; a raw value has kind "raw"; a reference is not followed
Kind(e) == IF "kind" \in DOMAIN e THEN e.kind ELSE "raw"

\* a node's own fields, a reference followed into the heap h
Deref(h, e) == IF IsRef(e) THEN h[e.id] ELSE e

\* JavaScript truthiness of a stack entry
Truthy(e) ==
    IF "kind" \in DOMAIN e THEN TRUE
    ELSE IF "b" \in DOMAIN e THEN e.b
    ELSE IF "n" \in DOMAIN e THEN e.n # 0
    ELSE IF "s" \in DOMAIN e THEN e.s # ""
    ELSE IF "undef" \in DOMAIN e THEN FALSE
    ELSE TRUE

\* Object.assign(target, source): source's fields over target's
ObjectAssign(target, source) ==
    [f \in DOMAIN target \cup DOMAIN source |->
        IF f \in DOMAIN source THEN source[f] ELSE target[f]]

\* obj.f = v
SetField(obj, f, v) == ObjectAssign(obj, [x \in {f} |-> v])

-----------------------------------------------------------------------------
(* Type utilities of reflection/type.ts and reflection/extends.ts *)

isType(e) == "kind" \in DOMAIN e

RECURSIVE flattenUnionTypes(_)
flattenUnionTypes(ts) ==
    IF ts = <<>> THEN <<>>
    ELSE LET t == Head(ts)
             rest == flattenUnionTypes(Tail(ts))
         IN  IF Kind(t) = "union" THEN flattenUnionTypes(t.types) \o rest
             ELSE IF Kind(t) = "never" THEN rest
             ELSE <<t>> \o rest

unboxUnion(u) == IF Len(u.types) = 1 THEN u.types[1] ELSE u

PrimitiveKinds == {"string", "number", "boolean", "bigint"}

narrowOriginalLiteral(t) ==
    IF Kind(t) \in PrimitiveKinds /\ "origin" \in DOMAIN t THEN t.origin ELSE t

AnnotatedKinds ==
    {"any", "string", "number", "boolean", "bigint", "literal", "union", "array",
     "class", "objectLiteral", "promise", "enum", "templateLiteral", "tuple",
     "function", "regexp", "symbol", "null", "undefined", "void", "unknown",
     "object", "never", "property", "propertySignature", "rest"}

isWithAnnotations(h, e) == isType(e) /\ Deref(h, e).kind \in AnnotatedKinds

\* the type typeInfer gives a raw value handed to extends
InferRaw(e) ==
    IF isType(e) THEN e
    ELSE IF "b" \in DOMAIN e \/ "n" \in DOMAIN e \/ "s" \in DOMAIN e THEN Lit(e)
    ELSE T("undefined")

LiteralBase(v) ==
    IF "s" \in DOMAIN v THEN "string"
    ELSE IF "n" \in DOMAIN v THEN "number"
    ELSE IF "b" \in DOMAIN v THEN "boolean"
    ELSE "unknown"

RECURSIVE isExtendableT(_, _, _)
isExtendableT(h, left, right) ==
    LET l == Deref(h, left)
        r == Deref(h, right)
    IN  IF r.kind \in {"any", "infer"} THEN TRUE
        ELSE IF r.kind = "union" THEN
            \E i \in DOMAIN r.types : isExtendableT(h, left, r.types[i])
        ELSE IF l.kind = "union" THEN
            \A i \in DOMAIN l.types : isExtendableT(h, l.types[i], right)
        ELSE IF l.kind = "never" THEN TRUE
        ELSE IF l.kind = "literal" THEN
            \/ r.kind = LiteralBase(l.literal)
            \/ r.kind = "literal" /\ r.literal = l.literal
        ELSE IF l.kind = "undefined" THEN r.kind \in {"undefined", "void"}
        ELSE IF l.kind = "array" THEN
            r.kind = "array" /\ isExtendableT(h, l.type, r.type)
        ELSE IF l.kind \in {"class", "objectLiteral"} THEN
            r.kind = "object" \/ (left = right)
        ELSE l.kind = r.kind

isExtendable(h, left, right) == isExtendableT(h, InferRaw(left), InferRaw(right))

\* the setter calls the check makes: an infer node on the right is bound to the
\* type on the left, at the top and as the element type of an array
InferBinds(h, left, right) ==
    LET l == Deref(h, InferRaw(left))
        r == Deref(h, InferRaw(right))
    IN  IF r.kind = "infer" THEN <<[node |-> r, type |-> InferRaw(left)]>>
        ELSE IF r.kind = "array" /\ l.kind = "array" /\ Kind(r.type) = "infer"
        THEN <<[node |-> r.type, type |-> l.type]>>
        ELSE <<>>


-----------------------------------------------------------------------------
(* Opcodes.  ReflectionOp lists the opcode names in enumeration order: the  *)
(* opcode of a name is its position, counted from 0.                        *)

ReflectionOp ==
    <<"never", "any", "unknown", "void", "object", "string", "number",
      "numberBrand", "boolean", "bigint", "symbol", "null", "undefined",
      "regexp", "literal", "templateLiteral", "property", "method", "function",
      "parameter", "promise", "class", "typeParameter", "typeParameterDefault",
      "classReference", "enum", "enumMember", "set", "map", "array", "tuple",
      "tupleMember", "namedTupleMember", "rest", "union", "intersection",
      "indexSignature", "objectLiteral", "propertySignature", "methodSignature",
      "mappedType", "frame", "moveFrame", "return", "jump", "call", "jumpCondition",
      "condition", "distribute", "infer", "extends", "indexAccess", "typeof",
      "keyof", "var", "loads", "arg", "inline", "inlineCall", "optional",
      "readonly", "public", "protected", "private", "abstract", "defaultValue",
      "description">>

\* `template` is the name the compiler's output uses for typeParameter
Op(name) ==
    LET n == IF name = "template" THEN "typeParameter" ELSE name
    IN  (CHOOSE i \in DOMAIN ReflectionOp : ReflectionOp[i] = n) - 1

\* the name of opcode n; "none" for a value that names no opcode
OpName(n) == IF n + 1 \in DOMAIN ReflectionOp THEN ReflectionOp[n + 1] ELSE "none"

\* the opcodes that push one node of their own kind and nothing else
ScalarOps ==
    {"string", "number", "boolean", "void", "unknown", "object", "never",
     "undefined", "bigint", "symbol", "null", "any", "regexp"}

\* the JavaScript string whose characters have the code points cs
Chars(cs) == [chars |-> cs]

\* the encoded form of the opcode sequence ops: char = opcode + 33
EncodeOps(ops) == Chars([i \in DOMAIN ops |-> ops[i] + 33])

\* a packed program: the literal pool followed by the encoded opcodes
Pack(pool, ops) == Append(pool, EncodeOps(ops))

\* a decoding that subtracts 32
unpackOpsOffByOne(encodedOPs) ==
    [i \in DOMAIN encodedOPs.chars |-> encodedOPs.chars[i] - 32]

unpackOps(encodedOPs) == [i \in DOMAIN encodedOPs.chars |-> encodedOPs.chars[i] - 33]

unpack(pack) ==
    IF pack = <<>> \/ "chars" \notin DOMAIN pack[Len(pack)]
    THEN [ops |-> <<>>, stack |-> <<>>]
    ELSE [ops |-> unpackOps(pack[Len(pack)]), stack |-> SubSeq(pack, 1, Len(pack) - 1)]

-----------------------------------------------------------------------------
(* Processor: construction, run's initialisation, stack and frame helpers.  *)
(* A Processor is a record; `frames` is the chain frame, frame.previous, ...*)
(* with the current frame last.  `err` is "" until an operation throws;     *)
(* every helper leaves a Processor that has thrown as it is.                *)

NoLoop == [on |-> FALSE, types |-> <<>>, i |-> 0]

\* a Loop that does not look into a union: the cursor has the one element fromType
LoopOverWhole(fromType) == [on |-> TRUE, types |-> <<fromType>>, i |-> 0]

\* new Loop(fromType)
Loop(fromType) ==
    [on |-> TRUE,
     types |-> IF Kind(fromType) = "union" THEN fromType.types ELSE <<fromType>>,
     i |-> 0]

\* Loop.next(): the element returned (Undefined past the end)
LoopNextValue(loop) ==
    IF loop.i + 1 \in DOMAIN loop.types THEN loop.types[loop.i + 1] ELSE Undefined

\* a next() that advances the cursor by two
LoopNextSkipping(loop) == [loop EXCEPT !.i = loop.i + 2]

\* Loop.next(): the cursor afterwards
LoopNext(loop) == [loop EXCEPT !.i = loop.i + 1]

\* `called` is not a field of the source's Frame: it records, for a frame that
\* call() pushed, the stack pointer s and the program counter c at the call and
\* the jumpBackTo it was given, so that a later return can be compared with them
InitialFrame ==
    [index |-> 0, startIndex |-> -1, variables |-> 0, inputs |-> <<>>,
     mappedType |-> NoLoop, distributiveLoop |-> NoLoop, called |-> Undefined]

\* the stack has the slot -1 besides the allocated ones: a push at stackPointer
\* -2 (returnFrame of a frame that starts at -1) stores its entry under the key -1
\* new Processor(forType, registry); `via` records who constructed it; `bound`
\* is not a field of the source's Processor: it records the last call of an infer
\* node's setter, [node, type], so that a later loads can be compared with it
Processor(id, forType, reg, via) ==
    [id |-> id, forType |-> forType, reg |-> reg, via |-> via,
     ops |-> <<>>, initialStack |-> <<>>, initialInputs |-> <<>>,
     stack |-> [i \in -1 .. StackSlots - 1 |-> IF i < 0 THEN Undefined ELSE Never],
     stackPointer |-> -1, frames |-> <<InitialFrame>>, program |-> 0, err |-> "",
     seen |-> Undefined, bound |-> Undefined]

\* an initialisation that leaves the frame's startIndex as the constructor set it
RunInitKeepingStartIndex(p, ops, initialStack, initialInputs) ==
    [p EXCEPT
        !.ops = ops, !.initialStack = initialStack, !.initialInputs = initialInputs,
        !.stack = [i \in DOMAIN p.stack |->
                      IF 0 <= i /\ i < Len(initialStack) THEN initialStack[i + 1]
                      ELSE p.stack[i]],
        !.stackPointer = Len(initialStack) - 1,
        !.frames = <<[p.frames[1] EXCEPT !.variables = 0,
                                         !.inputs = initialInputs]>>,
        !.program = 0]

\* the part of run before its loop
RunInit(p, ops, initialStack, initialInputs) ==
    [p EXCEPT
        !.ops = ops, !.initialStack = initialStack, !.initialInputs = initialInputs,
        !.stack = [i \in DOMAIN p.stack |->
                      IF 0 <= i /\ i < Len(initialStack) THEN initialStack[i + 1]
                      ELSE p.stack[i]],
        !.stackPointer = Len(initialStack) - 1,
        !.frames = <<[p.frames[1] EXCEPT !.startIndex = Len(initialStack) - 1,
                                         !.variables = 0,
                                         !.inputs = initialInputs]>>,
        !.program = 0]

Frame(p) == p.frames[Len(p.frames)]

SetFrame(p, f) == [p EXCEPT !.frames[Len(p.frames)] = f]

\* this.stack[i]
Slot(p, i) == IF i \in DOMAIN p.stack THEN p.stack[i] ELSE Undefined

\* this.stack[i] = e
SetSlot(p, i, e) ==
    IF p.err # "" THEN p
    ELSE IF i \in DOMAIN p.stack THEN [p EXCEPT !.stack[i] = e] ELSE p

Throw(p, msg) == IF p.err # "" THEN p ELSE [p EXCEPT !.err = msg]

push(p, entry) ==
    IF p.err # "" THEN p
    ELSE SetSlot([p EXCEPT !.stackPointer = p.stackPointer + 1], p.stackPointer + 1, entry)

pushType(p, type) == push(p, type)

\* a pop that does not look at stackPointer first
popUnguarded(p) ==
    IF p.err # "" THEN p ELSE [p EXCEPT !.stackPointer = p.stackPointer - 1]

\* pop(): the Processor afterwards
pop(p) ==
    IF p.err # "" THEN p
    ELSE IF p.stackPointer < 0 THEN Throw(p, "Stack empty")
    ELSE [p EXCEPT !.stackPointer = p.stackPointer - 1]

\* pop(): the entry returned
popped(p) == IF p.err # "" \/ p.stackPointer < 0 THEN Undefined ELSE Slot(p, p.stackPointer)

pushFrame(p) ==
    IF p.err # "" THEN p
    ELSE [p EXCEPT !.frames = Append(p.frames,
            [index |-> Frame(p).index + 1, startIndex |-> p.stackPointer,
             variables |-> 0, inputs |-> <<>>,
             mappedType |-> NoLoop, distributiveLoop |-> NoLoop,
             called |-> Undefined])]

\* a slice that starts right after startIndex, the frame's variables included
popFrameResultWithVariables(p) ==
    LET from == Frame(p).startIndex + 1
    IN  IF p.err # "" THEN <<>>
        ELSE [k \in 1 .. (p.stackPointer + 1 - from) |-> Slot(p, from + k - 1)]

\* popFrame(): the slots returned
popFrameResult(p) ==
    LET from == Frame(p).startIndex + Frame(p).variables + 1
    IN  IF p.err # "" THEN <<>>
        ELSE [k \in 1 .. (p.stackPointer + 1 - from) |-> Slot(p, from + k - 1)]

\* popFrame(): the Processor afterwards
popFrame(p) ==
    IF p.err # "" THEN p
    ELSE [p EXCEPT !.stackPointer = Frame(p).startIndex,
                   !.frames = IF Len(p.frames) > 1
                              THEN SubSeq(p.frames, 1, Len(p.frames) - 1)
                              ELSE p.frames]

\* a call whose return address is always the position after the current one
callFrameForward(p, program, jumpBackTo) ==
    LET p1 == pushFrame(push(p, Num(p.program + 1)))
        at == [s |-> p.stackPointer, c |-> p.program, off |-> jumpBackTo]
    IN  IF p1.err # "" THEN p1
        ELSE [SetFrame(p1, [Frame(p1) EXCEPT !.called = at]) EXCEPT !.program = program - 1]

\* call(program, jumpBackTo)
callFrame(p, program, jumpBackTo) ==
    LET p1 == pushFrame(push(p, Num(p.program + jumpBackTo)))
        at == [s |-> p.stackPointer, c |-> p.program, off |-> jumpBackTo]
    IN  IF p1.err # "" THEN p1
        ELSE [SetFrame(p1, [Frame(p1) EXCEPT !.called = at]) EXCEPT !.program = program - 1]

\* a return that leaves the return address on the stack
returnFrameKeepingAddress(p) ==
    LET returnValue == popped(p)
        p1 == pop(p)
        returnAddress == Slot(p1, Frame(p1).startIndex)
        p2 == push([p1 EXCEPT !.stackPointer = Frame(p1).startIndex], returnValue)
        p3 == IF IsNumber(returnAddress)
              THEN [p2 EXCEPT !.program = returnAddress.n - 1] ELSE p2
    IN  IF p1.err # "" THEN p1
        ELSE IF Len(p3.frames) > 1
             THEN [p3 EXCEPT !.frames = SubSeq(p3.frames, 1, Len(p3.frames) - 1)]
             ELSE p3

returnFrame(p) ==
    LET returnValue == popped(p)
        p1 == pop(p)
        returnAddress == Slot(p1, Frame(p1).startIndex)
        p2 == push([p1 EXCEPT !.stackPointer = Frame(p1).startIndex - 1], returnValue)
        p3 == IF IsNumber(returnAddress)
              THEN [p2 EXCEPT !.program = returnAddress.n - 1] ELSE p2
    IN  IF p1.err # "" THEN p1
        ELSE IF Len(p3.frames) > 1
             THEN [p3 EXCEPT !.frames = SubSeq(p3.frames, 1, Len(p3.frames) - 1)]
             ELSE p3

\* eatParameter(ops): the Processor afterwards
eat(p) == IF p.err # "" THEN p ELSE [p EXCEPT !.program = p.program + 1]

\* eatParameter(ops): the operand returned, ops[++program]
eaten(p) == IF p.program + 2 \in DOMAIN p.ops THEN Num(p.ops[p.program + 2]) ELSE Undefined

\* initialStack[ref]
PoolAt(p, ref) ==
    IF IsNumber(ref) /\ ref.n + 1 \in DOMAIN p.initialStack
    THEN p.initialStack[ref.n + 1] ELSE Undefined

-----------------------------------------------------------------------------
(* The opcode handlers of Processor.run that touch only their own Processor *)
(* and the heap.  Each takes the Processor p at the opcode (p.program is    *)
(* the opcode's index) and the heap h, and returns [p |-> ..., h |-> ...]   *)
(* as they are when the handler reaches its `break`; the loop's program++   *)
(* is applied by the step that uses the handler.                            *)

Local(p, h) == [p |-> p, h |-> h]

\* reading a property of an entry throws when the entry is undefined
NeedsObject(p, e) == IF IsUndefined(e) THEN Throw(p, "TypeError") ELSE p

DoScalar(p, h) == Local(pushType(p, T(OpName(p.ops[p.program + 1]))), h)

DoLiteral(p, h) ==
    LET ref == eaten(p)
    IN  Local(pushType(eat(p), Lit(PoolAt(p, ref))), h)

\* a projection of the constructor's parameters that drops optional and readonly
ConstructorPropertiesWithoutFlags(types) ==
    LET IsCtor(m) == Kind(m) = "method" /\ m.name = Str("constructor")
        ctors == {i \in DOMAIN types : IsCtor(types[i])}
        first == CHOOSE i \in ctors : \A j \in ctors : i <= j
        params == types[first].parameters
        AsProperty(par) ==
            [kind |-> "property", name |-> par.name,
             visibility |-> par.visibility, type |-> par.type]
        RECURSIVE Project(_)
        Project(ps) ==
            IF ps = <<>> THEN <<>>
            ELSE IF "visibility" \in DOMAIN Head(ps)
                 THEN <<AsProperty(Head(ps))>> \o Project(Tail(ps))
                 ELSE Project(Tail(ps))
    IN  IF ctors = {} THEN <<>> ELSE Project(params)

\* the property members the class opcode adds for the constructor's parameters
ConstructorProperties(types) ==
    LET IsCtor(m) == Kind(m) = "method" /\ m.name = Str("constructor")
        ctors == {i \in DOMAIN types : IsCtor(types[i])}
        first == CHOOSE i \in ctors : \A j \in ctors : i <= j
        params == types[first].parameters
        AsProperty(par) ==
            LET base == [kind |-> "property", name |-> par.name,
                         visibility |-> par.visibility, type |-> par.type]
                o1 == IF "optional" \in DOMAIN par /\ par.optional
                      THEN SetField(base, "optional", TRUE) ELSE base
            IN  IF "readonly" \in DOMAIN par /\ par.readonly
                THEN SetField(o1, "readonly", TRUE) ELSE o1
        RECURSIVE Project(_)
        Project(ps) ==
            IF ps = <<>> THEN <<>>
            ELSE IF "visibility" \in DOMAIN Head(ps)
                 THEN <<AsProperty(Head(ps))>> \o Project(Tail(ps))
                 ELSE Project(Tail(ps))
    IN  IF ctors = {} THEN <<>> ELSE Project(params)

\* inputs.filter(isType)
FilterTypes(inputs) == SelectSeq(inputs, isType)

\* whether the opcode at p.program is the last of the program
IsLastOp(p) == p.program + 1 = Len(p.ops)

\* an assignment to the result anchor at whatever index the opcode has
AnchoredAlways(p, h, t) ==
    [node |-> Ref(p.id), h |-> [h EXCEPT ![p.id] = ObjectAssign(h[p.id], t)]]

\* the node a class or objectLiteral opcode pushes for the fresh node t:
\* the result anchor, assigned t's fields, at the last opcode; t itself before
Anchored(p, h, t) ==
    IF IsLastOp(p)
    THEN [node |-> Ref(p.id), h |-> [h EXCEPT ![p.id] = ObjectAssign(h[p.id], t)]]
    ELSE [node |-> t, h |-> h]

DoClass(p, h) ==
    LET popd == popFrameResult(p)
        p1 == popFrame(p)
        types == popd \o ConstructorProperties(popd)
        args == FilterTypes(Frame(p1).inputs)
        t == [kind |-> "class", classType |-> "Object", types |-> types]
        a == Anchored(p1, h, t)
    IN  IF args = <<>> THEN Local(pushType(p1, a.node), a.h)
        ELSE IF IsRef(a.node)
             THEN Local(pushType(p1, a.node),
                        [a.h EXCEPT ![p.id] = SetField(a.h[p.id], "arguments", args)])
             ELSE Local(pushType(p1, SetField(a.node, "arguments", args)), a.h)

DoObjectLiteral(p, h) ==
    LET types == popFrameResult(p)
        p1 == popFrame(p)
        t == [kind |-> "objectLiteral", types |-> types]
        a == Anchored(p1, h, t)
    IN  Local(pushType(p1, a.node), a.h)

\* a reduction that looks for undefined in the second member only
PropertyTypeUndefinedLast(type) ==
    IF /\ Kind(type) = "union"
       /\ Len(type.types) = 2
       /\ Kind(type.types[2]) = "undefined"
       /\ Kind(type.types[1]) \notin {"null", "undefined"}
    THEN [type |-> type.types[1], optional |-> TRUE]
    ELSE [type |-> type, optional |-> FALSE]

\* the type and the optional flag that property / propertySignature derive from the popped type
PropertyType(type) ==
    LET two == Kind(type) = "union" /\ Len(type.types) = 2
        undef == IF two THEN {i \in 1 .. 2 : Kind(type.types[i]) = "undefined"} ELSE {}
        rest == IF two THEN {i \in 1 .. 2 : Kind(type.types[i]) \notin {"null", "undefined"}}
                ELSE {}
    IN  IF undef # {} /\ rest # {}
        THEN [type |-> type.types[CHOOSE i \in rest : \A j \in rest : i <= j],
              optional |-> TRUE]
        ELSE [type |-> type, optional |-> FALSE]

DoProperty(p, h) ==
    LET op == OpName(p.ops[p.program + 1])
        name == PoolAt(p, eaten(p))
        p1 == eat(p)
        type == popped(p1)
        p2 == NeedsObject(pop(p1), type)
        pt == PropertyType(type)
        base == [kind |-> op, type |-> pt.type, name |-> name]
        o1 == IF pt.optional THEN SetField(base, "optional", TRUE) ELSE base
        o2 == IF op = "property" THEN SetField(o1, "visibility", "public") ELSE o1
    IN  Local(pushType(p2, o2), h)

DoArray(p, h) ==
    Local(pushType(pop(p), [kind |-> "array", type |-> popped(p)]), h)

DoParameter(p, h) ==
    LET ref == eaten(p)
        p1 == eat(p)
        type == popped(p1)
    IN  Local(pushType(pop(p1), [kind |-> "parameter", name |-> PoolAt(p, ref),
                                 type |-> type]), h)

\* method and methodSignature: the last popped entry is the return type, the
\* ones before it are the parameters
DoMethod(p, h) ==
    LET op == OpName(p.ops[p.program + 1])
        name == PoolAt(p, eaten(p))
        p1 == eat(p)
        types == popFrameResult(p1)
        p2 == popFrame(p1)
        returnType == IF Len(types) > 0 THEN types[Len(types)] ELSE T("any")
        parameters == IF Len(types) > 1 THEN SubSeq(types, 1, Len(types) - 1) ELSE <<>>
        base == [kind |-> op, name |-> name, return |-> returnType,
                 parameters |-> parameters]
    IN  Local(pushType(p2, IF op = "method" THEN SetField(base, "visibility", "public")
                           ELSE base), h)

\* the opcodes that set one field of the entry on top of the stack
ModifierOps == {"optional", "readonly", "public", "protected", "private", "abstract"}

\* (this.stack[this.stackPointer]).field = value; the assignment throws when
\* the entry is undefined or a primitive value
DoModifier(p, h) ==
    LET op == OpName(p.ops[p.program + 1])
        top == Slot(p, p.stackPointer)
        field == IF op \in {"public", "protected", "private"} THEN "visibility" ELSE op
        fields == IF field = "visibility" THEN [visibility |-> op]
                  ELSE [x \in {field} |-> TRUE]
    IN  IF ~isType(top) THEN Local(Throw(p, "TypeError"), h)
        ELSE IF IsRef(top)
        THEN Local(p, [h EXCEPT ![top.id] = ObjectAssign(@, fields)])
        ELSE Local(SetSlot(p, p.stackPointer, ObjectAssign(top, fields)), h)

\* a collection that leaves the methods out
KeyofNamesOfProperties(members) ==
    [k \in 1 .. Len(SelectSeq(members, LAMBDA m : Kind(m) \in {"propertySignature", "property"})) |->
        Lit(SelectSeq(members, LAMBDA m : Kind(m) \in {"propertySignature", "property"})[k].name)]

\* the names keyof collects from the members of a class or objectLiteral
RECURSIVE KeyofNames(_)
KeyofNames(members) ==
    IF members = <<>> THEN <<>>
    ELSE IF Kind(Head(members)) \in
                {"propertySignature", "property", "methodSignature", "method"}
         THEN <<Lit(Head(members).name)>> \o KeyofNames(Tail(members))
         ELSE KeyofNames(Tail(members))

DoKeyof(p, h) ==
    LET type == popped(p)
        p1 == NeedsObject(pop(p), type)
        node == IF isType(type) THEN Deref(h, type) ELSE type
        types == IF Kind(node) \in {"objectLiteral", "class"}
                 THEN KeyofNames(node.types) ELSE <<>>
    IN  Local(push(p1, Union(types)), h)

\* a value that is no opcode of the switch: no case is taken
DoNothing(p, h) == Local(p, h)

\* the members a part adds to the product: those of a union, else the part itself
CartesianGroup(type) == IF Kind(type) = "union" THEN type.types ELSE <<type>>

\* CartesianProduct.calculate(): every combination of one member of each
\* part, in the order of the parts, the last part varying fastest
RECURSIVE CartesianProduct(_)
CartesianProduct(parts) ==
    IF parts = <<>> THEN <<>>
    ELSE LET group == CartesianGroup(Head(parts))
             rest == CartesianProduct(Tail(parts))
             RECURSIVE Prefixed(_, _)
             Prefixed(g, tails) ==
                IF g = <<>> THEN <<>>
                ELSE [i \in DOMAIN tails |-> <<Head(g)>> \o tails[i]] \o Prefixed(Tail(g), tails)
         IN  IF Tail(parts) = <<>> THEN [i \in DOMAIN group |-> <<group[i]>>]
             ELSE Prefixed(group, rest)

\* item.literal + '': the string a literal value turns into
LiteralText(v) ==
    IF "s" \in DOMAIN v THEN v.s
    ELSE IF "n" \in DOMAIN v THEN ToString(v.n)
    ELSE IF "b" \in DOMAIN v THEN (IF v.b THEN "true" ELSE "false")
    ELSE "undefined"

\* a merge that gives every literal of the combination a node of its own
MergeCombinationApart(combination) ==
    [i \in DOMAIN combination |->
        IF Kind(combination[i]) = "literal"
        THEN Lit(Str(LiteralText(combination[i].literal))) ELSE combination[i]]

\* template.types for one combination: a literal is appended to the literal
\* before it, if that is the last item so far, and starts a new one otherwise
RECURSIVE MergeCombination(_)
MergeCombination(combination) ==
    IF combination = <<>> THEN <<>>
    ELSE LET n == Len(combination)
             item == combination[n]
             sofar == MergeCombination(SubSeq(combination, 1, n - 1))
             m == Len(sofar)
         IN  IF Kind(item) # "literal" THEN Append(sofar, item)
             ELSE IF Kind(combination[IF n > 1 THEN n - 1 ELSE 1]) = "literal" /\ n > 1
             THEN [sofar EXCEPT ![m] =
                        Lit(Str(sofar[m].literal.s \o LiteralText(item.literal)))]
             ELSE Append(sofar, Lit(Str(LiteralText(item.literal))))

\* what one combination adds to the result: nothing, or one node
TemplateOf(combination) ==
    LET types == MergeCombination(combination)
        hasPlaceholder == \E i \in DOMAIN combination : Kind(combination[i]) # "literal"
    IN  IF hasPlaceholder
        THEN IF Len(types) = 1 /\ Kind(types[1]) = "string" THEN <<types[1]>>
             ELSE <<[kind |-> "templateLiteral", types |-> types]>>
        ELSE IF combination # <<>> THEN <<types[Len(types)]>>
        ELSE <<>>

RECURSIVE TemplatesOf(_)
TemplatesOf(product) ==
    IF product = <<>> THEN <<>>
    ELSE TemplateOf(Head(product)) \o TemplatesOf(Tail(product))

DoTemplateLiteral(p, h) ==
    LET types == popFrameResult(p)
        p1 == popFrame(p)
        undef == \E i \in DOMAIN types : ~isType(types[i])
    IN  IF undef THEN Local(Throw(p1, "TypeError"), h)
        ELSE Local(pushType(p1, unboxUnion(Union(TemplatesOf(CartesianProduct(types))))), h)

DoIndexSignature(p, h) ==
    LET type == popped(p)
        p1 == pop(p)
        index == popped(p1)
    IN  Local(pushType(pop(p1), [kind |-> "indexSignature", index |-> index,
                                 type |-> type]), h)

\* a function of the literal pool that returns v when called
Fn(v) == [returns |-> v]

DoEnumMember(p, h) ==
    LET name == PoolAt(p, eaten(p))
    IN  Local(pushType(eat(p), [kind |-> "enumMember",
                                name |-> IF "returns" \in DOMAIN name THEN name.returns
                                         ELSE name]), h)

\* (this.stack[this.stackPointer]).default = initialStack[operand]
DoDefaultValue(p, h) ==
    LET top == Slot(p, p.stackPointer)
        fields == [default |-> PoolAt(p, eaten(p))]
    IN  IF ~isType(top) THEN Local(Throw(eat(p), "TypeError"), h)
        ELSE IF IsRef(top)
        THEN Local(eat(p), [h EXCEPT ![top.id] = ObjectAssign(@, fields)])
        ELSE Local(SetSlot(eat(p), p.stackPointer, ObjectAssign(top, fields)), h)

\* if (type.default)
HasDefault(type) == "default" \in DOMAIN type /\ Truthy(type.default)

\* enumType[name] = v on the object kept as the list of its entries in
\* insertion order: an entry of that name keeps its place and gets the value
EnumSet(enum, name, v) ==
    IF \E k \in DOMAIN enum : enum[k].name = name
    THEN [k \in DOMAIN enum |-> IF enum[k].name = name THEN [name |-> name, value |-> v]
                                ELSE enum[k]]
    ELSE Append(enum, [name |-> name, value |-> v])

\* a loop whose counter ignores the defaults
RECURSIVE EnumLoopUnseeded(_)
EnumLoopUnseeded(types) ==
    IF types = <<>> THEN [i |-> 0, enum |-> <<>>]
    ELSE LET n == Len(types)
             type == types[n]
             prev == EnumLoopUnseeded(SubSeq(types, 1, n - 1))
         IN  IF HasDefault(type)
             THEN [i |-> prev.i, enum |-> EnumSet(prev.enum, type.name, type.default.returns)]
             ELSE [i |-> prev.i + 1, enum |-> EnumSet(prev.enum, type.name, Num(prev.i))]

\* the loop of the enum opcode over the members `types`: the counter i and
\* the object enumType after the last member
RECURSIVE EnumLoop(_)
EnumLoop(types) ==
    IF types = <<>> THEN [i |-> 0, enum |-> <<>>]
    ELSE LET n == Len(types)
             type == types[n]
             prev == EnumLoop(SubSeq(types, 1, n - 1))
             v == type.default.returns
         IN  IF HasDefault(type)
             THEN [i |-> IF IsNumber(v) THEN v.n + 1 ELSE prev.i,
                   enum |-> EnumSet(prev.enum, type.name, v)]
             ELSE [i |-> prev.i + 1, enum |-> EnumSet(prev.enum, type.name, Num(prev.i))]

\* the enum opcode reads no operand: it pops the frame of members
DoEnum(p, h) ==
    LET types == popFrameResult(p)
        p1 == popFrame(p)
        bad == \E k \in DOMAIN types :
                    \/ ~isType(types[k])
                    \/ "name" \notin DOMAIN types[k]
                    \/ HasDefault(types[k]) /\ "returns" \notin DOMAIN types[k].default
        enum == EnumLoop(types).enum
    IN  IF bad THEN Local(Throw(p1, "TypeError"), h)
        ELSE Local(pushType(p1, [kind |-> "enum", enum |-> enum,
                                 values |-> [k \in DOMAIN enum |-> enum[k].value]]), h)

DoMoveFrame(p, h) ==
    LET type == popped(p)
        p1 == popFrame(pop(p))
    IN  Local(IF Truthy(type) THEN push(p1, type) ELSE p1, h)

\* a union that wraps the popped frame as it is
DoUnionNested(p, h) ==
    LET types == popFrameResult(p)
    IN  Local(pushType(popFrame(p), unboxUnion(Union(types))), h)

DoUnion(p, h) ==
    LET types == popFrameResult(p)
    IN  Local(pushType(popFrame(p), unboxUnion(Union(flattenUnionTypes(types)))), h)

DoFrame(p, h) == Local(pushFrame(p), h)

DoVar(p, h) ==
    LET p1 == push(p, Never)
    IN  Local(SetFrame(p1, [Frame(p1) EXCEPT !.variables = @ + 1]), h)

\* frame.inputs[k], Undefined past the end
InputAt(frame, k) == IF k + 1 \in DOMAIN frame.inputs THEN frame.inputs[k + 1] ELSE Undefined

\* a typeParameterDefault that leaves the default on the stack
DoTypeParameterKeepingDefault(p, h) ==
    LET op == OpName(p.ops[p.program + 1])
        nameRef == eaten(p)
        p1 == eat(p)
        input == InputAt(Frame(p1), Frame(p1).variables)
        p2 == SetFrame(p1, [Frame(p1) EXCEPT !.variables = @ + 1])
        isDefault == op = "typeParameterDefault"
        type == IF isDefault /\ IsUndefined(input) THEN popped(p2) ELSE input
    IN  IF IsUndefined(type)
        THEN Local(pushType(p2, [kind |-> "typeParameter", name |-> PoolAt(p, nameRef)]), h)
        ELSE Local(pushType(p2, type), h)

\* a typeParameter that reads frame.inputs[++frame.variables]
DoTypeParameterPreIncrement(p, h) ==
    LET op == OpName(p.ops[p.program + 1])
        nameRef == eaten(p)
        p1 == eat(p)
        p2 == SetFrame(p1, [Frame(p1) EXCEPT !.variables = @ + 1])
        input == InputAt(Frame(p2), Frame(p2).variables)
        isDefault == op = "typeParameterDefault"
        defaultValue == popped(p2)
        p3 == IF isDefault THEN pop(p2) ELSE p2
        type == IF isDefault /\ IsUndefined(input) THEN defaultValue ELSE input
    IN  IF IsUndefined(type)
        THEN Local(pushType(p3, [kind |-> "typeParameter", name |-> PoolAt(p, nameRef)]), h)
        ELSE Local(pushType(p3, type), h)

DoTypeParameter(p, h) ==
    LET op == OpName(p.ops[p.program + 1])
        nameRef == eaten(p)
        p1 == eat(p)
        input == InputAt(Frame(p1), Frame(p1).variables)
        p2 == SetFrame(p1, [Frame(p1) EXCEPT !.variables = @ + 1])
        isDefault == op = "typeParameterDefault"
        defaultValue == popped(p2)
        p3 == IF isDefault THEN pop(p2) ELSE p2
        type == IF isDefault /\ IsUndefined(input) THEN defaultValue ELSE input
    IN  IF IsUndefined(type)
        THEN Local(pushType(p3, [kind |-> "typeParameter", name |-> PoolAt(p, nameRef)]), h)
        ELSE Local(pushType(p3, type), h)

\* the frame `offset` links up the chain from the current one, or Undefined
FrameUp(p, offset) ==
    IF Len(p.frames) - offset \in DOMAIN p.frames
    THEN p.frames[Len(p.frames) - offset] ELSE Undefined

DoLoads(p, h) ==
    LET frameOffset == eaten(p)
        p1 == eat(p)
        stackEntryIndex == eaten(p1)
        p2 == eat(p1)
        target == IF IsNumber(frameOffset) THEN FrameUp(p2, frameOffset.n) ELSE Frame(p2)
    IN  IF IsUndefined(target) THEN Local(Throw(p2, "TypeError"), h)
        ELSE IF ~IsNumber(stackEntryIndex) THEN Local(push(p2, Undefined), h)
        ELSE Local(push(p2, Slot(p2, target.startIndex + 1 + stackEntryIndex.n)), h)

\* frame.previous ... previous, `i` links up from position `at` of a captured
\* chain; 0 stands for the undefined previous of the first frame
RECURSIVE WalkUp(_, _)
WalkUp(at, i) == IF i = 0 \/ at = 0 THEN at ELSE WalkUp(at - 1, i - 1)

\* a setter that addresses the slot without the + 1
InferSlotAtStartIndex(node) ==
    LET n == Len(node.chain)
        at == WalkUp(n, node.frameOffset)
    IN  IF at = 0 THEN Undefined ELSE Num(node.chain[at] + node.stackEntryIndex)

\* the slot the setter of an infer node writes; Undefined when the chain of the
\* captured frame is shorter than frameOffset (the setter throws a TypeError)
InferSlot(node) ==
    LET n == Len(node.chain)
        k == node.frameOffset
        at == CASE k = 0 -> n
                [] k = 1 -> IF n >= 2 THEN n - 1 ELSE 0
                [] k = 2 -> IF n >= 3 THEN n - 2 ELSE 0
                [] k = 3 -> IF n >= 4 THEN n - 3 ELSE 0
                [] k = 4 -> IF n >= 5 THEN n - 4 ELSE 0
                [] OTHER -> WalkUp(n, k)
    IN  IF at = 0 THEN Undefined ELSE Num(node.chain[at] + 1 + node.stackEntryIndex)

\* set(type) of an infer node: this.stack[slot] = type
InferSet(p, node, type) ==
    IF IsUndefined(InferSlot(node)) THEN Throw(p, "TypeError")
    ELSE SetSlot(p, InferSlot(node).n, type)

RECURSIVE InferSetAll(_, _)
InferSetAll(p, binds) ==
    IF binds = <<>> THEN p
    ELSE InferSetAll(InferSet(p, binds[1].node, binds[1].type), Tail(binds))

\* the infer node holds what its closure captures: the frame (its startIndex and
\* those of its ancestors, outermost first) and the two operands
DoInfer(p, h) ==
    LET frameOffset == eaten(p)
        p1 == eat(p)
        stackEntryIndex == eaten(p1)
        p2 == eat(p1)
    IN  Local(push(p2, [kind |-> "infer",
                        chain |-> [i \in DOMAIN p.frames |-> p.frames[i].startIndex],
                        frameOffset |-> IF IsNumber(frameOffset) THEN frameOffset.n ELSE 0,
                        stackEntryIndex |-> IF IsNumber(stackEntryIndex)
                                            THEN stackEntryIndex.n ELSE 0]), h)

DoExtends(p, h) ==
    LET right == popped(p)
        p1 == pop(p)
        left == popped(p1)
        p2 == pop(p1)
        binds == InferBinds(h, left, right)
        p3 == InferSetAll(p2, binds)
        p4 == IF binds = <<>> \/ p3.err # "" THEN p3
              ELSE [p3 EXCEPT !.bound = binds[Len(binds)]]
    IN  Local(push(p4, Bool(isExtendable(h, left, right))), h)

DoCondition(p, h) ==
    LET right == popped(p)
        p1 == pop(p)
        left == popped(p1)
        p2 == pop(p1)
        condition == popped(p2)
        p3 == popFrame(pop(p2))
    IN  Local(pushType(p3, IF Truthy(condition) THEN left ELSE right), h)

\* the opcode index an operand names; an undefined operand makes the program
\* counter NaN, which ends run's loop like an index past the last opcode
Target(p, operand) == IF IsNumber(operand) THEN operand.n ELSE Len(p.ops)

DoJumpCondition(p, h) ==
    LET leftProgram == eaten(p)
        p1 == eat(p)
        rightProgram == eaten(p1)
        p2 == eat(p1)
        condition == popped(p2)
        p3 == pop(p2)
    IN  Local(callFrame(p3, Target(p, IF Truthy(condition) THEN leftProgram
                                                          ELSE rightProgram), 1), h)

DoJump(p, h) == Local([eat(p) EXCEPT !.program = Target(p, eaten(p)) - 1], h)

DoCall(p, h) == Local(callFrame(eat(p), Target(p, eaten(p)), 1), h)

DoReturn(p, h) == Local(returnFrame(p), h)

\* the modifier bits of a mappedType opcode
MappedModifierOptional == 1
MappedModifierRemoveOptional == 2
MappedModifierReadonly == 4
MappedModifierRemoveReadonly == 8

\* modifier & bit
HasBit(modifier, bit) == (modifier \div bit) % 2 = 1

\* obj without field f (obj.f = undefined)
ClearField(obj, f) == [x \in DOMAIN obj \ {f} |-> obj[x]]

IsSet(obj, f) == f \in DOMAIN obj /\ obj[f] = TRUE

ApplyModifier(property, modifier) ==
    LET m1 == IF HasBit(modifier, MappedModifierOptional)
              THEN SetField(property, "optional", TRUE) ELSE property
        m2 == IF HasBit(modifier, MappedModifierRemoveOptional) /\ IsSet(m1, "optional")
              THEN ClearField(m1, "optional") ELSE m1
        m3 == IF HasBit(modifier, MappedModifierReadonly)
              THEN SetField(m2, "readonly", TRUE) ELSE m2
    IN  IF HasBit(modifier, MappedModifierRemoveReadonly) /\ IsSet(m3, "readonly")
        THEN ClearField(m3, "readonly") ELSE m3

\* the part of distribute before `const next`: the result of the last iteration
\* is kept unless it is never; on first entry the loop cursor is created
DistributeCollect(p) ==
    LET type == popped(p)
        p1 == NeedsObject(pop(p), type)
    IN  IF Frame(p).distributiveLoop.on
        THEN IF Kind(type) = "never" THEN p1 ELSE push(p1, type)
        ELSE SetFrame(p1, [Frame(p1) EXCEPT !.distributiveLoop = Loop(type)])

DoDistribute(p, h) ==
    LET program == eaten(p)
        p1 == DistributeCollect(eat(p))
        next == LoopNextValue(Frame(p1).distributiveLoop)
        p2 == SetFrame(p1, [Frame(p1) EXCEPT !.distributiveLoop = LoopNext(@)])
    IN  IF p1.err # "" THEN Local(p1, h)
        ELSE IF IsUndefined(next)
        THEN LET types == popFrameResult(p2)
             IN  Local(push(popFrame(p2), unboxUnion(Union(flattenUnionTypes(types)))), h)
        ELSE Local(callFrame(SetSlot(p2, Frame(p2).startIndex + 1, next),
                             Target(p, program), -1), h)

\* the member mappedType pushes for the key `index` and the mapper's result `type`
MappedMember(p, index, type, modifier) ==
    LET name == IF Kind(index) = "literal" THEN index.literal ELSE index
        property == IF Kind(type) \in {"propertySignature", "property"} THEN type
                    ELSE [kind |-> "propertySignature", name |-> name, type |-> type]
    IN  IF IsUndefined(index) THEN Throw(p, "TypeError")
        ELSE IF Kind(index) \in {"string", "number", "symbol"}
        THEN push(p, [kind |-> "indexSignature", type |-> type, index |-> index])
        ELSE IF IsUndefined(type) THEN Throw(p, "TypeError")
        ELSE IF Kind(property.type) = "never" THEN p
        ELSE push(p, ApplyModifier(property, modifier))

\* the part of mappedType before `const next`: the member for the key of the
\* last iteration is pushed; on first entry the loop cursor is created
MappedCollect(p, modifier) ==
    LET type == popped(p)
        p1 == pop(p)
    IN  IF p1.err # "" THEN p1
        ELSE IF Frame(p).mappedType.on
        THEN MappedMember(p1, Slot(p1, Frame(p1).startIndex + 1), type, modifier)
        ELSE SetFrame(NeedsObject(p1, type), [Frame(p1) EXCEPT !.mappedType = Loop(type)])

DoMappedType(p, h) ==
    LET functionPointer == eaten(p)
        p0 == eat(p)
        modifier == eaten(p0)
        p1 == MappedCollect(eat(p0), IF IsNumber(modifier) THEN modifier.n ELSE 0)
        next == LoopNextValue(Frame(p1).mappedType)
        p2 == SetFrame(p1, [Frame(p1) EXCEPT !.mappedType = LoopNext(@)])
    IN  IF p1.err # "" THEN Local(p1, h)
        ELSE IF IsUndefined(next)
        THEN Local(push(popFrame(p2), [kind |-> "objectLiteral",
                                       types |-> popFrameResult(p2)]), h)
        ELSE Local(callFrame(SetSlot(p2, Frame(p2).startIndex + 1, next),
                             Target(p, functionPointer), -2), h)

-----------------------------------------------------------------------------
(* The packed programs of the model.  A program is known by its name, which *)
(* stands for the identity of its array; a class that carries a program     *)
(* under __type has the name of that program.                               *)

\* class Entity { p: string }
EntityOps == <<Op("string"), Op("property"), 0, Op("class")>>

\* class Container<T> { data: T }
ContainerOps ==
    <<Op("template"), 0, Op("loads"), 0, 0, Op("property"), 1, Op("class")>>

\* class Container<T> { data: T extends boolean ? number : never }
ContainerCondOps ==
    <<Op("template"), 0, Op("loads"), 0, 0, Op("boolean"), Op("extends"),
      Op("number"), Op("never"), Op("condition"), Op("property"), 1, Op("class")>>

\* interface Tree { value: number; children: Tree[] }
TreeOps ==
    <<Op("number"), Op("propertySignature"), 0, Op("inline"), 1, Op("array"),
      Op("propertySignature"), 2, Op("objectLiteral")>>

\* class Node { next: Node }
NodeOps == <<Op("classReference"), 0, Op("property"), 1, Op("class")>>

\* interface Ping { pong: Pong }, interface Pong { ping: Ping }
PingOps == <<Op("inline"), 0, Op("propertySignature"), 1, Op("objectLiteral")>>

\* type Rec<T> = { a: Rec<T> }
RecOps ==
    <<Op("typeParameter"), 0, Op("loads"), 0, 0, Op("inlineCall"), 1, 1,
      Op("propertySignature"), 2, Op("objectLiteral")>>

\* type Loop = { a: Loop }, the reference an inlineCall without arguments
LoopCallOps == <<Op("inlineCall"), 0, 0, Op("propertySignature"), 1, Op("objectLiteral")>>

\* type Wrap<T> = { v: T }
WrapOps ==
    <<Op("typeParameter"), 0, Op("loads"), 0, 0, Op("propertySignature"), 1,
      Op("objectLiteral")>>

\* type UseWrap = { w: Wrap<string> }
UseWrapOps ==
    <<Op("string"), Op("inlineCall"), 0, 1, Op("propertySignature"), 1,
      Op("objectLiteral")>>

\* the subprogram of Dist and DistOnce, at program position 4:
\* P = (the variable) extends string ? (the variable)[] | undefined : never
DistBody ==
    <<Op("loads"), 1, 0, Op("string"), Op("extends"), Op("jumpCondition"), 13, 21,
      Op("return"),
      Op("frame"), Op("loads"), 3, 0, Op("array"), Op("undefined"), Op("union"),
      Op("return"),
      Op("never"), Op("return")>>

\* type Dist<T> = T extends string ? T[] | undefined : never, distributive over T
DistOps ==
    <<Op("typeParameter"), 0, Op("jump"), 23>> \o DistBody \o
    <<Op("frame"), Op("var"), Op("loads"), 1, 0, Op("distribute"), 4>>

\* the subprogram of Dist called once on T, without distribution
DistOnceOps ==
    <<Op("typeParameter"), 0, Op("jump"), 23>> \o DistBody \o
    <<Op("frame"), Op("loads"), 1, 0, Op("call"), 4>>

\* a malformed program: array with nothing to pop
BrokenOps == <<Op("array")>>

\* type Flag<T> = T extends string ? 1 : 0, distributive over T
FlagOps ==
    <<Op("typeParameter"), 0, Op("jump"), 16,
      Op("frame"), Op("loads"), 2, 0, Op("string"), Op("extends"),
      Op("literal"), 1, Op("literal"), 2, Op("condition"), Op("return"),
      Op("frame"), Op("var"), Op("loads"), 1, 0, Op("distribute"), 4>>

\* type Mapped<K> = { [P in K]: P extends string ? boolean : never }
MappedOps ==
    <<Op("typeParameter"), 0, Op("jump"), 14,
      Op("frame"), Op("loads"), 2, 0, Op("string"), Op("extends"),
      Op("boolean"), Op("never"), Op("condition"), Op("return"),
      Op("frame"), Op("var"), Op("loads"), 1, 0, Op("mappedType"), 4, 0>>

\* type Nested = string | (number | boolean)
NestedOps ==
    <<Op("string"), Op("frame"), Op("number"), Op("boolean"), Op("union"), Op("union")>>

\* type Maybe<T> = T | undefined | never
MaybeOps ==
    <<Op("typeParameter"), 0, Op("frame"), Op("loads"), 1, 0, Op("undefined"),
      Op("never"), Op("union")>>

\* type Called = string[], the element type built by a subroutine
CalledOps == <<Op("jump"), 4, Op("string"), Op("return"), Op("call"), 2, Op("array")>>

\* type Keys = keyof { a: string }
KeysOps ==
    <<Op("frame"), Op("string"), Op("propertySignature"), 0, Op("objectLiteral"),
      Op("keyof")>>

\* type Keys2 = keyof { a: string; m(): void }
Keys2Ops ==
    <<Op("frame"), Op("string"), Op("propertySignature"), 0, Op("frame"), Op("void"),
      Op("methodSignature"), 1, Op("objectLiteral"), Op("keyof")>>

\* class Entity { p: string | undefined }
EntityOptOps ==
    <<Op("string"), Op("undefined"), Op("union"), Op("property"), 0, Op("class")>>

\* class Entity { p: undefined | string }
EntityOptFirstOps ==
    <<Op("undefined"), Op("string"), Op("union"), Op("property"), 0, Op("class")>>

\* class Entity { p: string | null }
EntityNullOps ==
    <<Op("string"), Op("null"), Op("union"), Op("property"), 0, Op("class")>>

\* class Entity { p: 'a' | 'b' | undefined }
EntityThreeOps ==
    <<Op("literal"), 0, Op("literal"), 1, Op("undefined"), Op("union"),
      Op("property"), 2, Op("class")>>

\* class User { title: string;
\*   constructor(public name: string, age?: number, private readonly id?: number) {} }
UserOps ==
    <<Op("string"), Op("property"), 0,
      Op("frame"),
      Op("string"), Op("parameter"), 1, Op("public"),
      Op("number"), Op("parameter"), 2, Op("optional"),
      Op("number"), Op("parameter"), 3, Op("private"), Op("readonly"), Op("optional"),
      Op("any"), Op("method"), 4,
      Op("class")>>

\* class Entity { constructor(param: string) {} }
CtorOps == <<Op("string"), Op("any"), Op("method"), 0, Op("class")>>

\* class Container<T, L> { data: T; label: L }
ContainerTLOps ==
    <<Op("template"), 0, Op("template"), 1, Op("loads"), 0, 0, Op("property"), 2,
      Op("loads"), 0, 1, Op("property"), 3, Op("class")>>

\* type Def<T = string> = { v: T }
DefOps ==
    <<Op("string"), Op("typeParameterDefault"), 0, Op("loads"), 0, 0,
      Op("propertySignature"), 1, Op("objectLiteral")>>

\* type Partial<K> = { readonly [P in K]?: P }, the mapper body at position 4
MappedModOps ==
    <<Op("typeParameter"), 0, Op("jump"), 8,
      Op("loads"), 1, 0, Op("return"),
      Op("frame"), Op("var"), Op("loads"), 1, 0, Op("mappedType"), 4, 5>>

\* type Fixed = `a${1}${string}c`
TplFixedOps ==
    <<Op("frame"), Op("literal"), 0, Op("literal"), 1, Op("string"), Op("literal"), 2,
      Op("templateLiteral")>>

\* type Tpl<T> = `${T}`
TplOps == <<Op("typeParameter"), 0, Op("frame"), Op("loads"), 1, 0, Op("templateLiteral")>>

\* type TplPair<T> = `${T}-${T}`
TplPairOps ==
    <<Op("typeParameter"), 0, Op("frame"), Op("loads"), 1, 0, Op("literal"), 1,
      Op("loads"), 1, 0, Op("templateLiteral")>>

\* type KeysIdx = keyof { a: string; [k: string]: number; m(): void }
KeysIdxOps ==
    <<Op("frame"), Op("string"), Op("propertySignature"), 0,
      Op("string"), Op("number"), Op("indexSignature"),
      Op("frame"), Op("void"), Op("methodSignature"), 1,
      Op("objectLiteral"), Op("keyof")>>

\* type KeysClass = keyof C, class C { m(): void; a: string }
KeysClassOps ==
    <<Op("frame"), Op("frame"), Op("void"), Op("method"), 1,
      Op("string"), Op("property"), 0, Op("class"), Op("keyof")>>

\* type KeysNone = keyof string
KeysNoneOps == <<Op("string"), Op("keyof")>>

\* enum Mixed { A, B = 5, C, D = 'x', F }
EnumMixedOps ==
    <<Op("frame"), Op("enumMember"), 0, Op("enumMember"), 1, Op("defaultValue"), 5,
      Op("enumMember"), 2, Op("enumMember"), 3, Op("defaultValue"), 6,
      Op("enumMember"), 4, Op("enum")>>

\* enum Zero { S = 's', Z, N = 0, O }
EnumZeroOps ==
    <<Op("frame"), Op("enumMember"), 0, Op("defaultValue"), 4, Op("enumMember"), 1,
      Op("enumMember"), 2, Op("defaultValue"), 5, Op("enumMember"), 3, Op("enum")>>

\* enum MyEnum {}; class Entity { p: MyEnum }
EntityEnumOps == <<Op("enum"), 0, Op("property"), 1, Op("class")>>

\* type Use<X, Y> = Container<string, never>, the second argument not supplied
UseTLOps ==
    <<Op("typeParameter"), 0, Op("typeParameter"), 1, Op("string"), Op("never"),
      Op("inlineCall"), 2, 2>>

\* type UseFirst<X, Y> = Container<never, string>, the first argument not supplied
UseFirstOps ==
    <<Op("typeParameter"), 0, Op("typeParameter"), 1, Op("never"), Op("string"),
      Op("inlineCall"), 2, 2>>

\* a frame whose last value, a type, is moved to the parent frame
MoveOps == <<Op("boolean"), Op("frame"), Op("number"), Op("string"), Op("moveFrame")>>

\* a frame whose last value is the outcome of extends: M extends string,
\* M the type argument
MoveExtendsOps ==
    <<Op("typeParameter"), 0, Op("frame"), Op("loads"), 1, 0, Op("string"), Op("extends"),
      Op("moveFrame")>>

\* type Unwrap<T> = T extends infer U ? U : never
InferOps ==
    <<Op("typeParameter"), 0, Op("frame"), Op("var"), Op("loads"), 1, 0,
      Op("infer"), 0, 0, Op("extends"), Op("loads"), 0, 0, Op("never"), Op("condition")>>

\* type Elem<T> = T extends (infer U)[] ? U : never
InferElemOps ==
    <<Op("typeParameter"), 0, Op("frame"), Op("var"), Op("loads"), 1, 0,
      Op("infer"), 0, 0, Op("array"), Op("extends"), Op("loads"), 0, 0, Op("never"),
      Op("condition")>>

\* T extends infer U, then U, k frames below the frame that declares U
InferUpOps(k) ==
    <<Op("typeParameter"), 0, Op("frame"), Op("var")>>
    \o [i \in 1 .. k |-> Op("frame")]
    \o <<Op("loads"), k + 1, 0, Op("infer"), k, 0, Op("extends"), Op("loads"), k, 0>>

\* the programs InferUpOps(k) by name
InferUpNames ==
    [InferUp0 |-> 0, InferUp1 |-> 1, InferUp2 |-> 2, InferUp3 |-> 3, InferUp4 |-> 4,
     InferUp5 |-> 5, InferUp6 |-> 6]

\* a malformed program: infer names a frame above the first one
InferShortOps == <<Op("string"), Op("infer"), 2, 0, Op("extends")>>

\* type SelfArr = SelfArr[], the self-reference through a thunk
SelfArrOps == <<Op("inline"), 0, Op("array")>>

\* type Json = string | Json[]
JsonOps == <<Op("frame"), Op("string"), Op("inline"), 0, Op("array"), Op("union")>>

\* a malformed program: return in the first frame, nothing below the value
ReturnTopOps == <<Op("string"), Op("return")>>

\* a value no opcode has
NoOpcode == 120

\* a malformed program: a value that is no opcode between string and array
SkipOps == <<Op("string"), NoOpcode, Op("array")>>

\* a malformed program: literal with an operand past the end of the pool
BadPoolOps == <<Op("literal"), 5>>

ProgramNames ==
    {"ReturnTop", "SelfArr", "Json", "Infer", "InferElem", "InferShort",
     "InferUp0", "InferUp1", "InferUp2", "InferUp3", "InferUp4", "InferUp5", "InferUp6",
     "UseTL", "UseFirst", "Move", "MoveExtends",
     "EnumMixed", "EnumZero", "EntityEnum",
     "KeysIdx", "KeysClass", "KeysNone",
     "ContainerTL", "Def", "MappedMod", "TplFixed", "Tpl", "TplPair",
     "Ctor", "Keys", "Keys2", "EntityOpt", "EntityOptFirst", "EntityNull", "EntityThree", "User",
     "Skip", "BadPool", "Empty", "Tail",
     "Broken", "Called", "DistOnce", "Entity", "Container", "ContainerCond", "Tree", "TreeThunk", "Node", "Ping",
     "Pong", "Rec", "RecThunk", "LoopCall", "LoopThunk", "Wrap", "UseWrap", "Dist",
     "Flag", "Mapped", "Nested", "Maybe"}

\* the packed array of a program
Packed(name) ==
    CASE name = "Entity" -> Pack(<<Str("p")>>, EntityOps)
      [] name = "Container" -> Pack(<<Str("T"), Str("data")>>, ContainerOps)
      [] name = "ContainerCond" -> Pack(<<Str("T"), Str("data")>>, ContainerCondOps)
      [] name = "Tree" -> Pack(<<Str("value"), Num(0), Str("children")>>, TreeOps)
      [] name = "TreeThunk" ->
            Pack(<<Str("value"), [thunk |-> "TreeThunk"], Str("children")>>, TreeOps)
      [] name = "Node" -> Pack(<<[clsThunk |-> "Node"], Str("next")>>, NodeOps)
      [] name = "Ping" -> Pack(<<[thunk |-> "Pong"], Str("pong")>>, PingOps)
      [] name = "Pong" -> Pack(<<[thunk |-> "Ping"], Str("ping")>>, PingOps)
      [] name = "Rec" -> Pack(<<Str("T"), Num(0), Str("a")>>, RecOps)
      [] name = "RecThunk" -> Pack(<<Str("T"), [thunk |-> "RecThunk"], Str("a")>>, RecOps)
      [] name = "LoopCall" -> Pack(<<Num(0), Str("a")>>, LoopCallOps)
      [] name = "LoopThunk" -> Pack(<<[thunk |-> "LoopThunk"], Str("a")>>, LoopCallOps)
      [] name = "Wrap" -> Pack(<<Str("T"), Str("v")>>, WrapOps)
      [] name = "UseWrap" -> Pack(<<[thunk |-> "Wrap"], Str("w")>>, UseWrapOps)
      [] name = "Dist" -> Pack(<<Str("T")>>, DistOps)
      [] name = "Flag" -> Pack(<<Str("T"), Num(1), Num(0)>>, FlagOps)
      [] name = "Mapped" -> Pack(<<Str("K")>>, MappedOps)
      [] name = "Nested" -> Pack(<<>>, NestedOps)
      [] name = "Maybe" -> Pack(<<Str("T")>>, MaybeOps)
      [] name = "Called" -> Pack(<<>>, CalledOps)
      [] name = "DistOnce" -> Pack(<<Str("T")>>, DistOnceOps)
      [] name = "Broken" -> Pack(<<>>, BrokenOps)
      [] name = "Keys" -> Pack(<<Str("a")>>, KeysOps)
      [] name = "Keys2" -> Pack(<<Str("a"), Str("m")>>, Keys2Ops)
      [] name = "EntityOpt" -> Pack(<<Str("p")>>, EntityOptOps)
      [] name = "EntityOptFirst" -> Pack(<<Str("p")>>, EntityOptFirstOps)
      [] name = "EntityNull" -> Pack(<<Str("p")>>, EntityNullOps)
      [] name = "EntityThree" -> Pack(<<Str("a"), Str("b"), Str("p")>>, EntityThreeOps)
      [] name = "User" ->
            Pack(<<Str("title"), Str("name"), Str("age"), Str("id"), Str("constructor")>>,
                 UserOps)
      [] name = "Ctor" -> Pack(<<Str("constructor")>>, CtorOps)
      [] name = "Skip" -> Pack(<<>>, SkipOps)
      [] name = "BadPool" -> Pack(<<>>, BadPoolOps)
      [] name = "ContainerTL" ->
            Pack(<<Str("T"), Str("L"), Str("data"), Str("label")>>, ContainerTLOps)
      [] name = "Def" -> Pack(<<Str("T"), Str("v")>>, DefOps)
      [] name = "MappedMod" -> Pack(<<Str("K")>>, MappedModOps)
      [] name = "TplFixed" -> Pack(<<Str("a"), Num(1), Str("c")>>, TplFixedOps)
      [] name = "Tpl" -> Pack(<<Str("T")>>, TplOps)
      [] name = "TplPair" -> Pack(<<Str("T"), Str("-")>>, TplPairOps)
      [] name = "KeysIdx" -> Pack(<<Str("a"), Str("m")>>, KeysIdxOps)
      [] name = "KeysClass" -> Pack(<<Str("a"), Str("m")>>, KeysClassOps)
      [] name = "KeysNone" -> Pack(<<>>, KeysNoneOps)
      [] name = "EnumMixed" ->
            Pack(<<Str("A"), Str("B"), Str("C"), Str("D"), Str("F"),
                   Fn(Num(5)), Fn(Str("x"))>>, EnumMixedOps)
      [] name = "EnumZero" ->
            Pack(<<Str("S"), Str("Z"), Str("N"), Str("O"), Fn(Str("s")), Fn(Num(0))>>,
                 EnumZeroOps)
      [] name = "EntityEnum" -> Pack(<<Fn(Str("MyEnum")), Str("p")>>, EntityEnumOps)
      [] name = "UseTL" -> Pack(<<Str("X"), Str("Y"), [thunk |-> "ContainerTL"]>>, UseTLOps)
      [] name = "UseFirst" ->
            Pack(<<Str("X"), Str("Y"), [thunk |-> "ContainerTL"]>>, UseFirstOps)
      [] name = "Move" -> Pack(<<>>, MoveOps)
      [] name = "MoveExtends" -> Pack(<<Str("M")>>, MoveExtendsOps)
      [] name = "ReturnTop" -> Pack(<<>>, ReturnTopOps)
      [] name = "SelfArr" -> Pack(<<[thunk |-> "SelfArr"]>>, SelfArrOps)
      [] name = "Json" -> Pack(<<[thunk |-> "Json"]>>, JsonOps)
      [] name = "Infer" -> Pack(<<Str("T")>>, InferOps)
      [] name = "InferElem" -> Pack(<<Str("T")>>, InferElemOps)
      [] name \in DOMAIN InferUpNames -> Pack(<<Str("T")>>, InferUpOps(InferUpNames[name]))
      [] name = "InferShort" -> Pack(<<>>, InferShortOps)
      [] name = "Empty" -> <<>>
      [] name = "Tail" -> <<Str("p"), Num(7)>>

\* the programs that are the __type of a class of the same name
ClassNames == {"Entity", "Container", "ContainerCond", "Node"}

\* the programs that declare a type parameter
GenericNames ==
    {"Container", "ContainerCond", "Rec", "RecThunk", "Wrap", "Dist", "DistOnce",
     "Flag", "Mapped", "Maybe"}

LitA == Lit(Str("a"))
LitB == Lit(Str("b"))

\* the types a caller passes as type argument
ArgTypes ==
    {T("string"), T("boolean"), LitA, Union(<<LitA, LitB>>),
     Union(<<T("string"), T("undefined")>>), Union(<<T("number"), LitA, T("string")>>),
     Never}

\* the argument lists a caller passes to a program
ArgsFor(name) ==
    CASE name \in GenericNames -> {<<>>} \cup {<<t>> : t \in ArgTypes}
      [] name = "ContainerTL" ->
            {<<>>, <<T("string")>>, <<T("string"), T("boolean")>>,
             <<Undefined, T("boolean")>>}
      [] name = "Def" -> {<<>>, <<T("boolean")>>}
      [] name = "Tpl" ->
            {<<T("string")>>, <<T("number")>>, <<Union(<<LitA, LitB>>)>>}
      [] name = "TplPair" ->
            {<<LitA>>, <<T("string")>>, <<Union(<<LitA, LitB>>)>>,
             <<Union(<<LitA, T("string")>>)>>}
      [] name \in {"UseTL", "UseFirst"} ->
            {<<>>, <<T("number")>>, <<T("number"), T("boolean")>>}
      [] name = "MoveExtends" -> {<<T("string")>>, <<T("number")>>}
      [] name = "MappedMod" -> {<<LitA>>, <<Union(<<LitA, T("string")>>)>>}
      [] name = "Infer" -> {<<T("string")>>, <<LitA>>}
      [] name = "InferElem" -> {<<[kind |-> "array", type |-> T("string")]>>, <<T("string")>>}
      [] name \in DOMAIN InferUpNames -> {<<LitA>>}
      [] OTHER -> {<<>>}

\* the handles a caller passes: a packed array, or a class carrying one
Handles ==
    {[pack |-> n] : n \in ProgramNames} \cup {[cls |-> n] : n \in ClassNames}

isPack(o) == "pack" \in DOMAIN o

\* const p = isArray(o) ? o : o.__type
ProgramOf(o) == IF isPack(o) THEN o.pack ELSE o.cls

-----------------------------------------------------------------------------
(* The whole state as one record, so that a step is a function of it.       *)

State ==
    [procs |-> procs, registry |-> registry, heap |-> heap, cache |-> cache,
     nextId |-> nextId, call |-> call, results |-> results]

Top(S) == S.procs[Len(S.procs)]

ReplaceTop(S, p) == [S EXCEPT !.procs[Len(S.procs)] = p]

\* what the caller of the top-level call observes
\* `first` and `last`: the Processors constructed during the call are first .. last - 1
Outcome(S, status, type, error) ==
    [o |-> S.call.o, args |-> S.call.args, reg |-> S.call.reg, status |-> status,
     type |-> type, error |-> error, first |-> S.call.first, last |-> S.nextId]

\* an error leaves every enclosing run and resolveRuntimeType: nothing catches it,
\* the activations are gone and the caller sees the error
Fail(S, p) ==
    [S EXCEPT !.procs = <<>>,
              !.call.status = "thrown",
              !.results = Append(@, Outcome(S, "thrown", Undefined, p.err))]

\* the loop's program++
Advance(p) == [p EXCEPT !.program = p.program + 1]

\* a handler's outcome r = [p, h] put back as the state after the opcode
AfterLocal(S, r) ==
    IF r.p.err # "" THEN Fail(S, r.p)
    ELSE [ReplaceTop(S, Advance(r.p)) EXCEPT !.heap = r.h]

EmptyRegistry == [n \in ProgramNames |-> 0]

\* the start of resolveRuntimeType: the cached node of a packed array, else the
\* anchor of the Processor registered for the program, else Undefined
Lookup(S, o, reg) ==
    IF isPack(o) /\ Truthy(S.cache[ProgramOf(o)]) THEN S.cache[ProgramOf(o)]
    ELSE IF reg # "none" /\ S.registry[reg][ProgramOf(o)] # 0
         THEN Ref(S.registry[reg][ProgramOf(o)])
         ELSE Undefined

\* the heap with the anchor {kind: any} of a new Processor
WithAnchor(h, id) == [i \in DOMAIN h \cup {id} |-> IF i = id THEN T("any") ELSE h[i]]

\* resolveRuntimeType after a miss, up to the first opcode of the new run;
\* reg = "none": no registry was passed, the Processor makes its own
Construct(S, o, args, reg, via) ==
    LET id == S.nextId
        p == ProgramOf(o)
        packStruct == unpack(Packed(p))
        own == IF reg = "none" THEN "own" ELSE reg
        registered == IF reg = "none" THEN [S.registry EXCEPT !.own = EmptyRegistry]
                      ELSE [S.registry EXCEPT ![reg][p] = id]
        processor == [Processor(id, p, own, via) EXCEPT
                        !.seen = [registry |-> registered[own], cache |-> S.cache]]
    IN  [S EXCEPT
            !.procs = Append(@, RunInit(processor, packStruct.ops, packStruct.stack, args)),
            !.registry = registered,
            !.heap = WithAnchor(@, id),
            !.nextId = id + 1]

\* new Processor(forType, this.registry).run(ops, stack, inputs) of inlineCall
ConstructCall(S, forType, ops, stack, inputs, via) ==
    LET id == S.nextId
        processor == [Processor(id, forType, Top(S).reg, via) EXCEPT
                        !.seen = [registry |-> S.registry[Top(S).reg], cache |-> S.cache]]
    IN  [S EXCEPT !.procs = Append(@, RunInit(processor, ops, stack, inputs)),
                  !.heap = WithAnchor(@, id),
                  !.nextId = id + 1]

Via(kind, o, registered, isFn, inputs) ==
    [kind |-> kind, o |-> o, registered |-> registered, isFn |-> isFn, inputs |-> inputs]

\* node.f = v for each field of `fields`, when the node can carry annotations
Annotate(h, node, fields) ==
    IF ~isWithAnnotations(h, node) THEN [node |-> node, h |-> h]
    ELSE IF IsRef(node)
    THEN [node |-> node, h |-> [h EXCEPT ![node.id] = ObjectAssign(@, fields)]]
    ELSE [node |-> ObjectAssign(node, fields), h |-> h]

\* pOrFn.toString().replace('() => __Ω', '') for a function, '' otherwise
TypeNameOf(pOrFn) ==
    IF "thunk" \in DOMAIN pOrFn THEN Str(pOrFn.thunk) ELSE Str("")

\* p = isFunction(pOrFn) ? pOrFn() : pOrFn, as a handle of resolveRuntimeType
HandleOf(pOrFn) ==
    IF "thunk" \in DOMAIN pOrFn THEN [pack |-> pOrFn.thunk]
    ELSE IF "packed" \in DOMAIN pOrFn THEN [pack |-> pOrFn.packed]
    ELSE Undefined

\* whether the chain of runs may grow by one more
MayNest(S) == Len(S.procs) < MaxDepth

\* a push that first drops the caller's current frame
PushInParentPoppingFrame(S, result) == ReplaceTop(S, Advance(push(popFrame(Top(S)), result)))

\* the state after the parent's opcode has pushed `result` (inline, inlineCall, classReference)
PushInParent(S, result) == ReplaceTop(S, Advance(push(Top(S), result)))

DoInline(S) ==
    LET p == Top(S)
        pOrFn == PoolAt(p, eaten(p))
        p1 == eat(p)
        o == HandleOf(pOrFn)
        found == Lookup(S, o, p.reg)
        named == Annotate(S.heap, found, [typeName |-> TypeNameOf(pOrFn)])
    IN  IF IsNumber(pOrFn) THEN PushInParent(ReplaceTop(S, p1), Ref(p.id))
        ELSE IF IsUndefined(o) THEN Fail(S, Throw(p1, "TypeError"))
        ELSE IF ~IsUndefined(found)
        THEN PushInParent(
                [ReplaceTop(S, p1) EXCEPT
                    !.heap = named.h,
                    !.cache = IF Truthy(@[o.pack]) THEN [@ EXCEPT ![o.pack] = named.node]
                              ELSE @],
                named.node)
        ELSE IF ~MayNest(S) THEN S
        ELSE Construct(ReplaceTop(S, p1), o, <<>>, p.reg,
                       Via("inline", o, TRUE, IsFunction(pOrFn), <<>>))

\* the inputs inlineCall pops: [p |-> the Processor afterwards, inputs |-> the list]
RECURSIVE PopInputs(_, _, _, _)
PopInputs(p, i, argumentSize, inputs) ==
    IF i >= argumentSize \/ p.err # "" THEN [p |-> p, inputs |-> inputs]
    ELSE LET input == popped(p)
             p1 == NeedsObject(pop(p), input)
             fallback == IF i + 1 \in DOMAIN p.initialInputs
                         THEN p.initialInputs[i + 1] ELSE Undefined
             used == IF Kind(input) = "never" /\ Truthy(fallback) THEN fallback ELSE input
         IN  PopInputs(p1, i + 1, argumentSize, <<used>> \o inputs)

DoInlineCall(S) ==
    LET p == Top(S)
        pPosition == eaten(p)
        p1 == eat(p)
        argumentSize == eaten(p1)
        got == PopInputs(eat(p1), 0, IF IsNumber(argumentSize) THEN argumentSize.n ELSE 0, <<>>)
        pOrFn == PoolAt(p, pPosition)
        o == HandleOf(pOrFn)
        pack == unpack(Packed(o.pack))
    IN  IF got.p.err # "" THEN Fail(S, got.p)
        ELSE IF IsNumber(pOrFn) /\ argumentSize = Num(0)
        THEN PushInParent(ReplaceTop(S, got.p), Ref(p.id))
        ELSE IF ~IsNumber(pOrFn) /\ IsUndefined(o) THEN Fail(S, Throw(got.p, "TypeError"))
        ELSE IF ~MayNest(S) THEN S
        ELSE IF IsNumber(pOrFn)
        THEN ConstructCall(ReplaceTop(S, got.p), p.forType, p.ops, p.initialStack,
                           got.inputs, Via("inlineCall", Undefined, FALSE, FALSE, got.inputs))
        ELSE ConstructCall(ReplaceTop(S, got.p), o.pack, pack.ops, pack.stack, got.inputs,
                           Via("inlineCall", o, FALSE, IsFunction(pOrFn), got.inputs))

DoClassReference(S) ==
    LET p == Top(S)
        fn == PoolAt(p, eaten(p))
        p1 == eat(p)
        args == popFrameResult(p1)
        p2 == popFrame(p1)
        o == [cls |-> fn.clsThunk]
        found == Lookup(S, o, p.reg)
    IN  IF "clsThunk" \notin DOMAIN fn THEN Fail(S, Throw(p1, "TypeError"))
        ELSE IF fn.clsThunk \notin ClassNames
        THEN PushInParent(ReplaceTop(S, p2),
                [kind |-> "class", classType |-> fn.clsThunk, arguments |-> args,
                 types |-> <<>>])
        ELSE IF ~IsUndefined(found) THEN PushInParent(ReplaceTop(S, p2), found)
        ELSE IF ~MayNest(S) THEN S
        ELSE Construct(ReplaceTop(S, p2), o, args, p.reg,
                       Via("classReference", o, TRUE, TRUE, <<>>))

\* the end of a run started by inlineCall: the rest of the inlineCall handler
FinishCall(S, type) ==
    LET p == Top(S)
        rest == [S EXCEPT !.procs = SubSeq(@, 1, Len(@) - 1)]
        name == IF p.via.isFn THEN Str(p.forType) ELSE Str("")
        named == Annotate(S.heap, type, [typeName |-> name, typeArguments |-> p.via.inputs])
    IN  PushInParent([rest EXCEPT !.heap = named.h], named.node)

\* type.classType = o of resolveRuntimeType, for a handle that is a class
ClassTypeFix(h, o, type) ==
    LET node == Deref(h, type)
        fix == ~isPack(o) /\ node.kind = "class" /\ node.classType = "Object"
    IN  IF ~fix THEN [node |-> type, h |-> h]
        ELSE IF IsRef(type)
        THEN [node |-> type, h |-> [h EXCEPT ![type.id] = SetField(@, "classType", o.cls)]]
        ELSE [node |-> SetField(type, "classType", o.cls), h |-> h]

\* the end of a run started by resolveRuntimeType: the rest of resolveRuntimeType,
\* then the rest of the handler that called it (or the return to the caller)
FinishResolve(S, type) ==
    LET p == Top(S)
        o == p.via.o
        S1 == IF p.via.registered THEN [S EXCEPT !.registry[p.reg][p.forType] = 0] ELSE S
        fixed == ClassTypeFix(S1.heap, o, type)
        name == IF p.via.isFn THEN Str(p.forType) ELSE Str("")
        named == IF p.via.kind = "inline"
                 THEN Annotate(fixed.h, fixed.node, [typeName |-> name])
                 ELSE fixed
        S2 == [S1 EXCEPT !.procs = SubSeq(@, 1, Len(@) - 1),
                         !.heap = named.h,
                         !.cache = IF isPack(o) THEN [@ EXCEPT ![p.forType] = named.node]
                                   ELSE @]
    IN  IF ~isType(type) THEN Fail(S1, Throw(p, "No type returned"))
        ELSE IF p.via.kind = "top"
        THEN [S2 EXCEPT !.call.status = "returned",
                        !.results = Append(@, Outcome(S2, "returned", named.node, ""))]
        ELSE PushInParent(S2, named.node)

\* the return of run, once its loop has ended
Finish(S) ==
    LET p == Top(S)
        top == Slot(p, p.stackPointer)
        type == narrowOriginalLiteral(top)
    IN  IF IsUndefined(top) THEN Fail(S, Throw(p, "TypeError"))
        ELSE IF p.via.kind = "inlineCall" THEN FinishCall(S, type)
        ELSE FinishResolve(S, type)

\* whether a run is in progress
Running(S) == S.call.status = "running"

\* this.program < ops.length fails for the innermost run
AtEnd(S) == Running(S) /\ Top(S).program + 1 \notin DOMAIN Top(S).ops

\* the name of the opcode the innermost run executes next
CurOp(S) == IF Running(S) /\ ~AtEnd(S) THEN OpName(Top(S).ops[Top(S).program + 1]) ELSE ""

\* the switch of run: the state after the opcode `name` of the innermost run
OpStep(S, name) ==
    LET p == Top(S)
        h == S.heap
    IN  CASE name \in ScalarOps -> AfterLocal(S, DoScalar(p, h))
          [] name = "literal" -> AfterLocal(S, DoLiteral(p, h))
          [] name = "class" -> AfterLocal(S, DoClass(p, h))
          [] name = "objectLiteral" -> AfterLocal(S, DoObjectLiteral(p, h))
          [] name \in {"property", "propertySignature"} -> AfterLocal(S, DoProperty(p, h))
          [] name = "array" -> AfterLocal(S, DoArray(p, h))
          [] name = "union" -> AfterLocal(S, DoUnion(p, h))
          [] name = "frame" -> AfterLocal(S, DoFrame(p, h))
          [] name = "var" -> AfterLocal(S, DoVar(p, h))
          [] name \in {"typeParameter", "typeParameterDefault"} ->
                AfterLocal(S, DoTypeParameter(p, h))
          [] name = "loads" -> AfterLocal(S, DoLoads(p, h))
          [] name = "extends" -> AfterLocal(S, DoExtends(p, h))
          [] name = "infer" -> AfterLocal(S, DoInfer(p, h))
          [] name = "condition" -> AfterLocal(S, DoCondition(p, h))
          [] name = "jumpCondition" -> AfterLocal(S, DoJumpCondition(p, h))
          [] name = "jump" -> AfterLocal(S, DoJump(p, h))
          [] name = "call" -> AfterLocal(S, DoCall(p, h))
          [] name = "return" -> AfterLocal(S, DoReturn(p, h))
          [] name = "distribute" -> AfterLocal(S, DoDistribute(p, h))
          [] name = "mappedType" -> AfterLocal(S, DoMappedType(p, h))
          [] name = "inline" -> DoInline(S)
          [] name = "inlineCall" -> DoInlineCall(S)
          [] name = "classReference" -> DoClassReference(S)
          [] name = "parameter" -> AfterLocal(S, DoParameter(p, h))
          [] name \in {"method", "methodSignature"} -> AfterLocal(S, DoMethod(p, h))
          [] name \in ModifierOps -> AfterLocal(S, DoModifier(p, h))
          [] name = "keyof" -> AfterLocal(S, DoKeyof(p, h))
          [] name = "templateLiteral" -> AfterLocal(S, DoTemplateLiteral(p, h))
          [] name = "indexSignature" -> AfterLocal(S, DoIndexSignature(p, h))
          [] name = "enumMember" -> AfterLocal(S, DoEnumMember(p, h))
          [] name = "defaultValue" -> AfterLocal(S, DoDefaultValue(p, h))
          [] name = "enum" -> AfterLocal(S, DoEnum(p, h))
          [] name = "moveFrame" -> AfterLocal(S, DoMoveFrame(p, h))
          [] name = "none" -> AfterLocal(S, DoNothing(p, h))
          [] OTHER -> S

\* one step of the evaluation in progress
Step(S) == IF AtEnd(S) THEN Finish(S) ELSE OpStep(S, CurOp(S))

\* resolveRuntimeType(o, args, registry) called from outside, up to the first opcode
Begin(S, o, args, reg) ==
    LET S0 == [S EXCEPT !.procs = <<>>,
                        !.call = [status |-> "running", o |-> o, args |-> args,
                                  reg |-> reg, first |-> S.nextId]]
        found == Lookup(S0, o, reg)
    IN  IF ~IsUndefined(found)
        THEN [S0 EXCEPT !.call.status = "returned",
                        !.results = Append(@, Outcome(S0, "returned", found, ""))]
        ELSE Construct(S0, o, args, reg, Via("top", o, reg # "none", FALSE, <<>>))

\* the state before any call
Fresh ==
    [procs |-> <<>>,
     registry |-> [user |-> EmptyRegistry, own |-> EmptyRegistry],
     heap |-> <<>>,
     cache |-> [n \in ProgramNames |-> Undefined],
     nextId |-> 1,
     call |-> [status |-> "idle", o |-> Undefined, args |-> <<>>, reg |-> "none",
               first |-> 1],
     results |-> <<>>]

\* the state in which the evaluation in progress in S has ended
RECURSIVE RunToEnd(_)
RunToEnd(S) == IF Running(S) THEN RunToEnd(Step(S)) ELSE S

\* resolvePacked(type, args) on packed arrays nothing has resolved before: the outcome
resolvePacked(name, args) == RunToEnd(Begin(Fresh, [pack |-> name], args, "none")).results[1]

-----------------------------------------------------------------------------
(* The dependency injector (packages/injector/src/injector.ts) *)

(***************************************************************************)
(* An injector world W holds what the retrievers read and write:           *)
(* resolved[injector][token], the creating flag of every provider case of  *)
(* every injector's retriever, the module-level CircularDetector, and the  *)
(* objects built so far.  `ran` is a ghost: the factories run during one   *)
(* get, each as <<injector, token, what it did>>.  A built object is       *)
(* [obj |-> n], the n-th of W.instances; it is the same object as another  *)
(* exactly when the numbers are equal.  A call yields [W, v, error]: error *)
(* is "" when it returned v.                                               *)
(***************************************************************************)

\* a provider of `token`: the tokens its factory is called with, whether it is
\* transient, and what its factory does once its arguments are there
Provider(token, deps, transient, yields) ==
    [provide |-> token, deps |-> deps, transient |-> transient, yields |-> yields]

\* the module setup of the tests: the importing module's injector holds the exported
\* Connection, and the injector of the database module has it as parent
Injectors == {"root", "database"}

ProvidersOf(injector) ==
    IF injector = "root"
    THEN <<Provider("Connection", <<>>, FALSE, "instance"),
           Provider("CycA", <<"CycB">>, FALSE, "instance"),
           Provider("CycB", <<"CycA">>, FALSE, "instance"),
           Provider("Flaky", <<>>, FALSE, "throws"),
           Provider("Nothing", <<>>, FALSE, "undefined"),
           Provider("Needy", <<"Nothing">>, FALSE, "instance"),
           Provider("Temp", <<>>, TRUE, "instance")>>
    ELSE <<Provider("HiddenDatabaseService", <<"Connection">>, FALSE, "instance")>>

ParentsOf(injector) == IF injector = "database" THEN <<"root">> ELSE <<>>

Tokens == UNION {{ProvidersOf(i)[k].provide : k \in DOMAIN ProvidersOf(i)} : i \in Injectors}

\* whether the injector has a provider of the token, and that provider
Provides(injector, token) ==
    \E k \in DOMAIN ProvidersOf(injector) : ProvidersOf(injector)[k].provide = token

ProviderOf(injector, token) ==
    ProvidersOf(injector)[CHOOSE k \in DOMAIN ProvidersOf(injector) :
                              ProvidersOf(injector)[k].provide = token]

\* what a call yields
Result(W, v, error) == [W |-> W, v |-> v, error |-> error]

\* every closure of CircularDetectorResets runs: every creating flag is false again
CircularDetectorResets(W) ==
    [W EXCEPT !.creating = [i \in Injectors |-> [t \in Tokens |-> FALSE]]]

throwCircularDependencyKeepingFlags(W) ==
    Result([W EXCEPT !.CircularDetector = <<>>], Undefined, "CircularDependencyError")

throwCircularDependency(W) ==
    Result(CircularDetectorResets([W EXCEPT !.CircularDetector = <<>>]),
           Undefined, "CircularDependencyError")

\* constructorParameterNotFound, factoryDependencyNotFound, propertyParameterNotFound
factoryDependencyNotFound(W) ==
    Result(CircularDetectorResets(W), Undefined, "DependenciesUnmetError")

\* injector.resolved[resolvedId] = v
StoreNothing(W, injector, token, v) == W

StoreResolved(W, injector, token, v) == [W EXCEPT !.resolved[injector][token] = v]

\* the factory of the provider runs with the arguments `args`
Factory(W, injector, p, args) ==
    LET W1 == [W EXCEPT !.ran = Append(@, <<injector, p.provide, p.yields>>)]
    IN  IF p.yields = "throws" THEN Result(W1, Undefined, "FactoryError")
        ELSE IF p.yields = "undefined" THEN Result(W1, Undefined, "")
        ELSE Result([W1 EXCEPT !.instances =
                         Append(@, [of |-> p.provide, by |-> injector, args |-> args])],
                    [obj |-> Len(W1.instances) + 1], "")

RECURSIVE retriever(_, _, _, _)
RECURSIVE Arguments(_, _, _, _)
RECURSIVE FromParents(_, _, _, _, _)

\* the arguments of a factory, each resolved from the front injector, left to right
Arguments(W, front, deps, got) ==
    IF Len(got) = Len(deps) THEN Result(W, got, "")
    ELSE LET R == retriever(W, front, deps[Len(got) + 1], front)
         IN  IF R.error # "" THEN R
             ELSE IF IsUndefined(R.v) THEN factoryDependencyNotFound(R.W)
             ELSE Arguments(R.W, front, deps, Append(got, R.v))

\* the parents are asked in order, from the i-th on
FromParents(W, injector, i, token, front) ==
    IF i > Len(ParentsOf(injector)) THEN Result(W, Undefined, "")
    ELSE LET R == retriever(W, ParentsOf(injector)[i], token, front)
         IN  IF R.error # "" \/ ~IsUndefined(R.v) THEN R
             ELSE FromParents(R.W, injector, i + 1, token, front)

\* the generated case of the provider of `token`
RetrieverCase(W, injector, token, front) ==
    LET p == ProviderOf(injector, token)
        W1 == [W EXCEPT !.CircularDetector = Append(@, token)]
        W2 == [W1 EXCEPT !.creating[injector][token] = TRUE]
        A == Arguments(W2, front, p.deps, <<>>)
        F == Factory(A.W, injector, p, A.v)
        W3 == IF p.transient THEN F.W ELSE StoreResolved(F.W, injector, token, F.v)
        W4 == [W3 EXCEPT !.creating[injector][token] = FALSE,
                         !.CircularDetector = SubSeq(@, 1, Len(@) - 1)]
    IN  IF ~p.transient /\ ~IsUndefined(W.resolved[injector][token])
        THEN Result(W, W.resolved[injector][token], "")
        ELSE IF W1.creating[injector][token] THEN throwCircularDependency(W1)
        ELSE IF A.error # "" THEN A
        ELSE IF F.error # "" THEN F
        ELSE Result(W4, F.v, "")

\* the retriever of the injector: its own providers, then its parents
retriever(W, injector, token, front) ==
    IF Provides(injector, token) THEN RetrieverCase(W, injector, token, front)
    ELSE FromParents(W, injector, 1, token, front)

\* Injector.get(token)
get(W, injector, token) ==
    LET R == retriever(W, injector, token, injector)
    IN  IF R.error # "" \/ ~IsUndefined(R.v) THEN R
        ELSE Result(CircularDetectorResets(R.W), Undefined, "TokenNotFoundError")

\* Injector.addProviders(...) with providers the injector lists already: buildRetriever
\* makes a new retriever, with new flags, and empties resolved
addProviders(W, injector) ==
    [W EXCEPT !.resolved[injector] = [t \in Tokens |-> Undefined],
              !.creating[injector] = [t \in Tokens |-> FALSE]]

\* the world before any get
FreshWorld ==
    [resolved |-> [i \in Injectors |-> [t \in Tokens |-> Undefined]],
     creating |-> [i \in Injectors |-> [t \in Tokens |-> FALSE]],
     CircularDetector |-> <<>>,
     instances |-> <<>>,
     ran |-> <<>>]

-----------------------------------------------------------------------------
(* The file store (src/fs.ts) *)

(***************************************************************************)
(* A File record is [id, path, md5]; the content of a file is stored       *)
(* locally under its md5, so `disk` is the set of md5s that have content.  *)
(* Every FS method is an async function: it runs up to its next await, the *)
(* awaited operation takes effect, and the method continues in a later     *)
(* step, so that the steps of the calls in progress interleave.  `tasks`   *)
(* holds one call of removeFiles, one of registerFile and one of write,    *)
(* each with its position `pc` (the operation it awaits) and its locals.   *)
(***************************************************************************)

File(id, path, md5) == [id |-> id, path |-> path, md5 |-> md5]

Md5s == {"X", "Y", "Z"}

\* the records and the content before any call: two files share the content X
StoredFiles == {File("f1", "a", "X"), File("f2", "b", "X"), File("f3", "c", "Y")}

StoredContent == {"X", "Y"}

\* the arguments the callers choose from
RegisterArgs == {[md5 |-> m, path |-> "d"] : m \in {"X", "Y"}}

WriteArgs == {[path |-> p, md5 |-> m] : p \in {"c", "d"}, m \in Md5s}

IdleTasks ==
    [removeFiles |-> [pc |-> "idle", fileIds |-> {}, md5ToCheckMap |-> <<>>, deletes |-> {}],
     registerFile |-> [pc |-> "idle", md5 |-> "", path |-> "", file |-> Undefined],
     write |-> [pc |-> "idle", path |-> "", md5 |-> "", file |-> Undefined, oldMd5 |-> ""]]

\* the File records with the md5
Linked(md5) == {f \in database : f.md5 = md5}

\* removeFiles(files), up to `await this.database.deleteMany`
RemoveFilesCall ==
    /\ tasks.removeFiles.pc = "idle"
    /\ \E files \in SUBSET database :
        /\ files # {}
        /\ tasks' = [tasks EXCEPT !.removeFiles =
                        [pc |-> "deleteMany",
                         fileIds |-> {f.id : f \in files},
                         md5ToCheckMap |-> [m \in {f.md5 : f \in files} |-> 0],
                         deletes |-> {}]]
    /\ UNCHANGED <<database, disk, rvmVars, diVars>>

\* the records are deleted; removeFiles goes on to `await fileCollection.find`
RemoveFilesDeleteMany ==
    /\ tasks.removeFiles.pc = "deleteMany"
    /\ database' = {f \in database : f.id \notin tasks.removeFiles.fileIds}
    /\ tasks' = [tasks EXCEPT !.removeFiles.pc = "find"]
    /\ UNCHANGED <<disk, rvmVars, diVars>>

\* the still linked md5s are found and counted, and the removal of every md5 with
\* count 0 begins; removeFiles goes on to `await Promise.all(deletes)`
RemoveFilesFind ==
    /\ tasks.removeFiles.pc = "find"
    /\ LET keys == DOMAIN tasks.removeFiles.md5ToCheckMap
           foundMd5s == {f \in database : f.md5 \in keys}
           counted == [m \in keys |-> Cardinality({f \in foundMd5s : f.md5 = m})]
       IN  tasks' = [tasks EXCEPT !.removeFiles.md5ToCheckMap = counted,
                                  !.removeFiles.deletes = {m \in keys : counted[m] = 0},
                                  !.removeFiles.pc = "remove"]
    /\ UNCHANGED <<database, disk, rvmVars, diVars>>

\* one of the removals takes effect
RemoveFilesRemove ==
    /\ tasks.removeFiles.pc = "remove"
    /\ \E m \in tasks.removeFiles.deletes :
        /\ disk' = disk \ {m}
        /\ tasks' = [tasks EXCEPT !.removeFiles.deletes = @ \ {m}]
    /\ UNCHANGED <<database, rvmVars, diVars>>

\* all removals are done: removeFiles returns true
RemoveFilesReturn ==
    /\ tasks.removeFiles.pc = "remove"
    /\ tasks.removeFiles.deletes = {}
    /\ tasks' = [tasks EXCEPT !.removeFiles.pc = "returned"]
    /\ UNCHANGED <<database, disk, rvmVars, diVars>>

\* registerFile(md5, path), up to `await this.database.get`
RegisterFileCall ==
    /\ tasks.registerFile.pc = "idle"
    /\ \E a \in RegisterArgs :
        tasks' = [tasks EXCEPT !.registerFile =
                     [pc |-> "get", md5 |-> a.md5, path |-> a.path, file |-> Undefined]]
    /\ UNCHANGED <<database, disk, rvmVars, diVars>>

\* a record with the md5 is read; registerFile throws without one, and goes on to
\* `await pathExists(localPath)` with one
RegisterFileGet ==
    /\ tasks.registerFile.pc = "get"
    /\ IF Linked(tasks.registerFile.md5) = {}
       THEN tasks' = [tasks EXCEPT !.registerFile.pc = "threw"]
       ELSE \E file \in Linked(tasks.registerFile.md5) :
                tasks' = [tasks EXCEPT !.registerFile.file = file,
                                       !.registerFile.pc = "pathExists"]
    /\ UNCHANGED <<database, disk, rvmVars, diVars>>

\* the content is looked for; registerFile throws without it, and goes on to
\* `await this.database.add` with it
RegisterFilePathExists ==
    /\ tasks.registerFile.pc = "pathExists"
    /\ tasks' = [tasks EXCEPT !.registerFile.pc =
                    IF tasks.registerFile.file.md5 \in disk THEN "add" ELSE "threw"]
    /\ UNCHANGED <<database, disk, rvmVars, diVars>>

\* the fork of the record is added, and registerFile returns it
RegisterFileAdd ==
    /\ tasks.registerFile.pc = "add"
    /\ database' = database \cup
                   {File("registered", tasks.registerFile.path, tasks.registerFile.file.md5)}
    /\ tasks' = [tasks EXCEPT !.registerFile.pc = "returned"]
    /\ UNCHANGED <<disk, rvmVars, diVars>>

\* write(path, data), up to `await this.findOne`; md5 is getMd5(data)
WriteCall ==
    /\ tasks.write.pc = "idle"
    /\ \E a \in WriteArgs :
        tasks' = [tasks EXCEPT !.write =
                     [pc |-> "findOne", path |-> a.path, md5 |-> a.md5,
                      file |-> Undefined, oldMd5 |-> ""]]
    /\ UNCHANGED <<database, disk, rvmVars, diVars>>

\* the record of the path is read: without one write goes on to add a new record, with
\* one of another md5 to patch it, and with one of the same md5 to write the content
WriteFindOne ==
    /\ tasks.write.pc = "findOne"
    /\ LET found == {f \in database : f.path = tasks.write.path}
       IN  IF found = {}
           THEN tasks' = [tasks EXCEPT !.write.pc = "add"]
           ELSE \E file \in found :
                   tasks' = [tasks EXCEPT
                       !.write.file = file,
                       !.write.oldMd5 = IF file.md5 # tasks.write.md5 THEN file.md5 ELSE "",
                       !.write.pc = IF file.md5 # tasks.write.md5 THEN "patch"
                                                                  ELSE "ensureDir"]
    /\ UNCHANGED <<database, disk, rvmVars, diVars>>

\* the new record is added
WriteAdd ==
    /\ tasks.write.pc = "add"
    /\ LET file == File("written", tasks.write.path, tasks.write.md5)
       IN  /\ database' = database \cup {file}
           /\ tasks' = [tasks EXCEPT !.write.file = file, !.write.pc = "ensureDir"]
    /\ UNCHANGED <<disk, rvmVars, diVars>>

\* the record gets the new md5; write goes on to `await this.hasMd5InDb(oldMd5)`
WritePatch ==
    /\ tasks.write.pc = "patch"
    /\ database' = {IF f.id = tasks.write.file.id THEN [f EXCEPT !.md5 = tasks.write.md5]
                                                  ELSE f : f \in database}
    /\ tasks' = [tasks EXCEPT !.write.file.md5 = tasks.write.md5,
                              !.write.pc = "hasMd5InDb"]
    /\ UNCHANGED <<disk, rvmVars, diVars>>

\* the records of the old md5 are counted
WriteHasMd5InDb ==
    /\ tasks.write.pc = "hasMd5InDb"
    /\ tasks' = [tasks EXCEPT !.write.pc =
                    IF Linked(tasks.write.oldMd5) # {} THEN "ensureDir" ELSE "pathExists"]
    /\ UNCHANGED <<database, disk, rvmVars, diVars>>

\* the old content is looked for
WritePathExists ==
    /\ tasks.write.pc = "pathExists"
    /\ tasks' = [tasks EXCEPT !.write.pc =
                    IF tasks.write.oldMd5 \in disk THEN "unlink" ELSE "ensureDir"]
    /\ UNCHANGED <<database, disk, rvmVars, diVars>>

\* the old content is removed
WriteUnlink ==
    /\ tasks.write.pc = "unlink"
    /\ disk' = disk \ {tasks.write.oldMd5}
    /\ tasks' = [tasks EXCEPT !.write.pc = "ensureDir"]
    /\ UNCHANGED <<database, rvmVars, diVars>>

\* the directory is there; write goes on to `await writeFile(localPath, data)`
WriteEnsureDir ==
    /\ tasks.write.pc = "ensureDir"
    /\ tasks' = [tasks EXCEPT !.write.pc = "writeFile"]
    /\ UNCHANGED <<database, disk, rvmVars, diVars>>

\* the content is written under its md5, and write returns the record
WriteWriteFile ==
    /\ tasks.write.pc = "writeFile"
    /\ disk' = disk \cup {tasks.write.file.md5}
    /\ tasks' = [tasks EXCEPT !.write.pc = "returned"]
    /\ UNCHANGED <<database, rvmVars, diVars>>

-----------------------------------------------------------------------------
(* The state machine *)

\* the registries a caller can pass: none, or the one it holds
RegistryChoices == {"none", "user"}

Init ==
    /\ procs = Fresh.procs
    /\ registry = Fresh.registry
    /\ heap = Fresh.heap
    /\ cache = Fresh.cache
    /\ nextId = Fresh.nextId
    /\ call = Fresh.call
    /\ results = Fresh.results
    /\ resolved = FreshWorld.resolved
    /\ creating = FreshWorld.creating
    /\ CircularDetector = FreshWorld.CircularDetector
    /\ instances = FreshWorld.instances
    /\ gets = <<>>
    /\ database = StoredFiles
    /\ disk = StoredContent
    /\ tasks = IdleTasks

\* the next state is S
Becomes(S) ==
    /\ procs' = S.procs
    /\ registry' = S.registry
    /\ heap' = S.heap
    /\ cache' = S.cache
    /\ nextId' = S.nextId
    /\ call' = S.call
    /\ results' = S.results
    /\ UNCHANGED <<diVars, fsVars>>

\* Runs of programs that do not refer to one another share nothing but the numbering
\* of the nodes: the cache is per class and a registration per program.  So the
\* programs one caller resolves are one program again and again, or come from one of
\* these groups: programs that refer to one another, and programs whose results are
\* looked at together.
Groups ==
    {{"Ping", "Pong"}, {"Wrap", "UseWrap"}, {"ContainerTL", "UseTL", "UseFirst"},
     {"EntityOptFirst", "EntityNull"}, {"Tail", "User"}, {"Keys", "Entity"},
     {"Dist", "Mapped"}, {"Wrap", "Nested"}, {"Def", "ContainerTL"},
     {"TplFixed", "TplPair"}, {"KeysIdx", "KeysNone"}, {"EnumMixed", "EnumZero"},
     {"InferUp6", "InferElem"}, {"ReturnTop", "Broken"}, {"UseTL", "Tree", "TreeThunk"}}

Related(a, b) == a = b \/ \E g \in Groups : a \in g /\ b \in g

\* a caller resolves a handle; it passes its registry on every call, or on none
Resolve ==
    /\ call.status # "running"
    /\ Len(results) < MaxCalls
    /\ \E o \in Handles : \E args \in ArgsFor(ProgramOf(o)) : \E reg \in RegistryChoices :
        /\ results # <<>> => Related(ProgramOf(results[1].o), ProgramOf(o))
        /\ results # <<>> => reg = results[1].reg
        /\ Becomes(Begin(State, o, args, reg))

\* the innermost run executes the opcode `name`
Exec(name) == CurOp(State) = name /\ Becomes(OpStep(State, name))

ExecScalar == \E name \in ScalarOps : Exec(name)
ExecLiteral == Exec("literal")
ExecClass == Exec("class")
ExecObjectLiteral == Exec("objectLiteral")
ExecProperty == Exec("property") \/ Exec("propertySignature")
ExecArray == Exec("array")
ExecUnion == Exec("union")
ExecFrame == Exec("frame")
ExecVar == Exec("var")
ExecTypeParameter == Exec("typeParameter") \/ Exec("typeParameterDefault")
ExecLoads == Exec("loads")
ExecExtends == Exec("extends")
ExecInfer == Exec("infer")
ExecCondition == Exec("condition")
ExecJumpCondition == Exec("jumpCondition")
ExecJump == Exec("jump")
ExecCall == Exec("call")
ExecReturn == Exec("return")
ExecDistribute == Exec("distribute")
ExecMappedType == Exec("mappedType")
ExecInline == Exec("inline")
ExecInlineCall == Exec("inlineCall")
ExecClassReference == Exec("classReference")
ExecParameter == Exec("parameter")
ExecMethod == Exec("method") \/ Exec("methodSignature")
ExecModifier == \E name \in ModifierOps : Exec(name)
ExecKeyof == Exec("keyof")
ExecTemplateLiteral == Exec("templateLiteral")
ExecIndexSignature == Exec("indexSignature")
ExecEnumMember == Exec("enumMember")
ExecDefaultValue == Exec("defaultValue")
ExecEnum == Exec("enum")
ExecMoveFrame == Exec("moveFrame")
ExecNoCase == Exec("none")

\* the innermost run returns
Return == AtEnd(State) /\ Becomes(Finish(State))

Next ==
    \/ Resolve
    \/ ExecScalar
    \/ ExecLiteral
    \/ ExecClass
    \/ ExecObjectLiteral
    \/ ExecProperty
    \/ ExecArray
    \/ ExecUnion
    \/ ExecFrame
    \/ ExecVar
    \/ ExecTypeParameter
    \/ ExecLoads
    \/ ExecExtends
    \/ ExecInfer
    \/ ExecCondition
    \/ ExecJumpCondition
    \/ ExecJump
    \/ ExecCall
    \/ ExecReturn
    \/ ExecDistribute
    \/ ExecMappedType
    \/ ExecInline
    \/ ExecInlineCall
    \/ ExecClassReference
    \/ ExecParameter
    \/ ExecMethod
    \/ ExecModifier
    \/ ExecKeyof
    \/ ExecTemplateLiteral
    \/ ExecIndexSignature
    \/ ExecEnumMember
    \/ ExecDefaultValue
    \/ ExecEnum
    \/ ExecMoveFrame
    \/ ExecNoCase
    \/ Return

Spec == Init /\ [][Next]_vars

\* the gets and addProviders calls an execution makes
MaxGets == 4

\* the world the injectors are in
World ==
    [resolved |-> resolved, creating |-> creating, CircularDetector |-> CircularDetector,
     instances |-> instances, ran |-> <<>>]

\* the injectors are in the world W, and the call is on record
Logged(W, entry) ==
    /\ resolved' = W.resolved
    /\ creating' = W.creating
    /\ CircularDetector' = W.CircularDetector
    /\ instances' = W.instances
    /\ gets' = Append(gets, entry)
    /\ UNCHANGED <<rvmVars, fsVars>>

\* the tokens a caller asks an injector for: the importing module's injector for
\* everything but CycB, the database module's injector for its own service, for the
\* shared Connection and for one token of the cycle
AsksOf(injector) ==
    IF injector = "root" THEN Tokens \ {"CycB"}
    ELSE {"HiddenDatabaseService", "Connection", "CycA"}

\* a caller gets a token from an injector
Get ==
    /\ Len(gets) < MaxGets
    /\ \E injector \in Injectors : \E token \in AsksOf(injector) :
        LET R == get(World, injector, token)
        IN  Logged(R.W, [op |-> "get", injector |-> injector, token |-> token,
                         v |-> R.v, error |-> R.error, ran |-> R.W.ran])

\* a caller adds to the injector that holds the shared providers one it lists already
AddProviders ==
    /\ Len(gets) < MaxGets
    /\ \E injector \in {"root"} :
        Logged(addProviders(World, injector),
               [op |-> "addProviders", injector |-> injector, token |-> "",
                v |-> Undefined, error |-> "", ran |-> <<>>])

NextDI ==
    \/ Get
    \/ AddProviders

SpecDI == Init /\ [][NextDI]_vars

NextFS ==
    \/ RemoveFilesCall
    \/ RemoveFilesDeleteMany
    \/ RemoveFilesFind
    \/ RemoveFilesRemove
    \/ RemoveFilesReturn
    \/ RegisterFileCall
    \/ RegisterFileGet
    \/ RegisterFilePathExists
    \/ RegisterFileAdd
    \/ WriteCall
    \/ WriteFindOne
    \/ WriteAdd
    \/ WritePatch
    \/ WriteHasMd5InDb
    \/ WritePathExists
    \/ WriteUnlink
    \/ WriteEnsureDir
    \/ WriteWriteFile

SpecFS == Init /\ [][NextFS]_vars

\* the model's stack has room for every write
StackFits == \A i \in DOMAIN procs : procs[i].stackPointer < StackSlots

-----------------------------------------------------------------------------
(* Properties *)

\* the registry object the call in progress (or just ended) works with
CallRegistry == registry[IF call.reg = "none" THEN "own" ELSE call.reg]

\* the node a returned outcome r stands for, a reference followed
Node(r) == Deref(heap, r.type)

\* the members of a class or objectLiteral node that are a property named n
Members(node, n) ==
    {i \in DOMAIN node.types :
        /\ Kind(node.types[i]) \in {"property", "propertySignature"}
        /\ node.types[i].name = Str(n)}

\* the outcomes of the calls that returned a node
Returned == {k \in DOMAIN results : results[k].status = "returned"}

\* the outcomes of the calls whose node was built by a run of that very call
Ran == {k \in Returned : results[k].last > results[k].first}

\* C1: the chain of nested runs of a self-referential program is finite: no
\* run starts on the program, the inputs, the registry and the cache that
\* an enclosing run started on (a run is a function of these, so a repeat
\* repeats without end).
C1_NoRunRepeatsAnEnclosingRun ==
    \A i, j \in DOMAIN procs :
        i < j =>
            ~ /\ procs[i].forType = procs[j].forType
              /\ procs[i].ops = procs[j].ops
              /\ procs[i].initialStack = procs[j].initialStack
              /\ procs[i].initialInputs = procs[j].initialInputs
              /\ procs[i].seen = procs[j].seen

\* C2: for a self-referential program that ends in class or objectLiteral, the
\* node its self-reference pushed is the object the top-level call returns
\* (Tree: result.children.type.type is result; Loop: result.a.type is result).
C2_SelfReferenceIsTheResult ==
    \A k \in Returned :
        LET r == results[k]
            name == ProgramOf(r.o)
        IN  /\ name \in {"Tree", "TreeThunk"} =>
                    IsRef(r.type) /\ Node(r).types[2].type.type = r.type
            /\ name \in {"LoopCall", "LoopThunk"} =>
                    IsRef(r.type) /\ Node(r).types[1].type = r.type

\* C3: while a Processor made by resolveRuntimeType runs a program, no second
\* Processor is made by resolveRuntimeType for that program.
C3_OneProcessorPerProgram ==
    \A i, j \in DOMAIN procs :
        /\ i < j
        /\ procs[i].via.kind # "inlineCall"
        /\ procs[j].via.kind # "inlineCall"
        => procs[i].forType # procs[j].forType

\* C4: every entry of the registry is the Processor that resolveRuntimeType made
\* for that program and that is still running, and the registry is empty once
\* the top-level call has returned.
C4_RegistrationsEndWithTheirRun ==
    /\ \A n \in ProgramNames :
            CallRegistry[n] # 0 =>
                \E i \in DOMAIN procs :
                    /\ procs[i].id = CallRegistry[n]
                    /\ procs[i].forType = n
                    /\ procs[i].via.registered
    /\ call.status = "returned" => CallRegistry = EmptyRegistry

\* C5: the second of two successive resolutions of one handle without type
\* arguments returns the node of the first and runs no Processor.
C5_SecondResolutionIsCached ==
    /\ Len(results) = 2
    /\ Returned = {1, 2}
    /\ results[1].o = results[2].o
    /\ results[1].args = <<>>
    /\ results[2].args = <<>>
    => /\ results[2].type = results[1].type
       /\ results[2].last = results[2].first

\* C8: the program of class Container<T> {data: T extends boolean ? number : never}
\* run with [boolean] gives a class with a property data of kind number, run
\* with [string] one with a property data of kind never.
C8_ContainerCondData ==
    \A k \in Ran :
        LET r == results[k]
            Data(kind) ==
                /\ Node(r).kind = "class"
                /\ \E i \in Members(Node(r), "data") : Kind(Node(r).types[i].type) = kind
        IN  ProgramOf(r.o) = "ContainerCond" =>
                /\ r.args = <<T("boolean")>> => Data("number")
                /\ r.args = <<T("string")>> => Data("never")

\* the members a Loop over t visits
MembersOf(t) == IF Kind(t) = "union" THEN t.types ELSE <<t>>

\* the subprogram of Dist evaluated on each member of t by itself
DistParts(t) ==
    [i \in DOMAIN MembersOf(t) |-> resolvePacked("DistOnce", <<MembersOf(t)[i]>>).type]

\* the outcomes of the runs of Dist on one type argument
DistRuns == {k \in Ran : ProgramOf(results[k].o) = "Dist" /\ Len(results[k].args) = 1}

\* C6 as stated: distribute over a union gives the flattened, unboxed union of
\* the subprogram's results on the members, never removed; over a type that is
\* no union it gives the subprogram's result on that type.
C6_DistributeAsStated ==
    \A k \in DistRuns :
        LET r == results[k]
            t == r.args[1]
        IN  IF Kind(t) = "union"
            THEN r.type = unboxUnion(Union(flattenUnionTypes(DistParts(t))))
            ELSE r.type = resolvePacked("DistOnce", <<t>>).type

\* C6: distribute gives the flattened, unboxed union of the subprogram's
\* results on the members of the type, never removed, where a type that is no
\* union counts as its own single member: there the result is the subprogram's
\* result, or a union without members when that result is never.
C6_DistributeIsUnionOfParts ==
    \A k \in DistRuns :
        LET r == results[k]
            t == r.args[1]
            alone == resolvePacked("DistOnce", <<t>>).type
        IN  /\ r.type = unboxUnion(Union(flattenUnionTypes(DistParts(t))))
            /\ Kind(t) # "union" =>
                    r.type = IF Kind(alone) = "never" THEN Union(<<>>) ELSE alone

\* C6 witness: Dist has run on a three-member union of which one member gives never
C6_Witness ==
    \E k \in DistRuns :
        /\ results[k].args = <<Union(<<T("number"), LitA, T("string")>>)>>
        /\ \E i \in 1 .. 3 : Kind(DistParts(results[k].args[1])[i]) = "never"
        /\ Kind(results[k].type) = "union"

\* the loop cursor of frame f that the opcode op works with
LoopOf(f, op) == IF op = "distribute" THEN f.distributiveLoop ELSE f.mappedType

\* the slots of the current frame of p above its variables, up to slot `last`
FrameSlots(p, last) ==
    LET from == Frame(p).startIndex + Frame(p).variables + 1
    IN  [k \in 1 .. (last + 1 - from) |-> Slot(p, from + k - 1)]

IsPrefix(a, b) == Len(a) <= Len(b) /\ SubSeq(b, 1, Len(a)) = a

\* C7 for one step of distribute or mappedType.  With `members` the members of
\* the looped type and k the entries made so far: while k < n the step enters
\* the subprogram with member k + 1 as the variable and the cursor at k + 1,
\* and the results kept so far stay in place below the new ones; at k = n the
\* step enters nothing and leaves the loop's frame.
C7_LoopStep ==
    LET p == Top(State)
        op == CurOp(State)
        f == Frame(p)
        loop == LoopOf(f, op)
        top == Slot(p, p.stackPointer)
        members == IF loop.on THEN loop.types ELSE MembersOf(top)
        k == IF loop.on THEN loop.i ELSE 0
        kept == IF loop.on THEN FrameSlots(p, p.stackPointer - 1) ELSE <<>>
        q == procs'[Len(procs')]
        depth == Len(p.frames)
        width == IF op = "distribute" THEN 2 ELSE 3
    IN  /\ op \in {"distribute", "mappedType"}
        /\ Len(procs') = Len(procs)
        /\ nextId' = nextId
        => IF k < Len(members)
           THEN /\ Len(q.frames) = depth + 1
                /\ q.program = p.ops[p.program + 2]
                /\ Slot(q, f.startIndex + 1) = members[k + 1]
                /\ LoopOf(q.frames[depth], op).i = k + 1
                /\ LoopOf(q.frames[depth], op).types = members
                /\ IsPrefix(kept, FrameSlots([q EXCEPT !.frames = SubSeq(@, 1, depth)],
                                             q.frames[depth + 1].startIndex - 1))
           ELSE /\ Len(q.frames) = depth - 1
                /\ q.program = p.program + width
                /\ op = "mappedType" => IsPrefix(kept, Slot(q, q.stackPointer).types)

\* C7: every step of a distribute or mappedType loop enters the subprogram with
\* the next member in the union's order, n times in all, keeps the results in
\* that order, and ends the loop on the step after the n-th return.
C7_LoopInMemberOrder == [][C7_LoopStep]_vars

\* C7 witness: a loop over a three-member union has made its third entry with
\* two results kept
C7_Witness ==
    /\ Running(State)
    /\ \E i \in DOMAIN Top(State).frames :
            LET f == Top(State).frames[i]
            IN  /\ f.mappedType.on
                /\ Len(f.mappedType.types) = 3
                /\ f.mappedType.i = 3
                /\ Len(Top(State).frames) > i
                /\ Kind(Slot(Top(State), f.startIndex + f.variables + 2)) = "propertySignature"

\* the outcomes of the calls that ran the program of class Container<T> {data: T}
ContainerRuns ==
    {k \in DOMAIN results :
        /\ ProgramOf(results[k].o) = "Container"
        /\ results[k].last > results[k].first}

\* the node of outcome r is a class with the one member `data`, a public
\* property of type `type`, and with the generic arguments args
ContainerOf(r, type, args) ==
    /\ Node(r).kind = "class"
    /\ Len(Node(r).types) = 1
    /\ Node(r).types[1].kind = "property"
    /\ Node(r).types[1].name = Str("data")
    /\ Node(r).types[1].visibility = "public"
    /\ Node(r).types[1].type = type
    /\ IF args = <<>> THEN "arguments" \notin DOMAIN Node(r)
       ELSE "arguments" \in DOMAIN Node(r) /\ Node(r).arguments = args

\* C9 as stated: the program of class Container<T> {data: T} run with [X]
\* gives a class with the one member data, a public property of type X, and
\* the generic arguments [X]; run without inputs the property's type is the
\* typeParameter T, and no error is raised.
C9_ContainerAsStated ==
    \A k \in ContainerRuns :
        LET r == results[k]
        IN  /\ r.status = "returned"
            /\ r.args # <<>> => ContainerOf(r, r.args[1], r.args)
            /\ r.args = <<>> =>
                    ContainerOf(r, [kind |-> "typeParameter", name |-> Str("T")], <<>>)

\* X is a union of two members, one undefined and one neither null nor undefined
IsOptionalForm(X) ==
    /\ Kind(X) = "union"
    /\ Len(X.types) = 2
    /\ \E i \in 1 .. 2 : Kind(X.types[i]) = "undefined"
    /\ \E i \in 1 .. 2 : Kind(X.types[i]) \notin {"null", "undefined"}

\* C9: as stated, except that for X a two-member union of undefined and a type
\* that is neither null nor undefined the property has that type and is
\* optional (the generic arguments are still [X]).
C9_ContainerData ==
    \A k \in ContainerRuns :
        LET r == results[k]
            X == r.args[1]
            rest == X.types[CHOOSE i \in 1 .. 2 :
                                Kind(X.types[i]) \notin {"null", "undefined"}]
        IN  /\ r.status = "returned"
            /\ r.args = <<>> =>
                    /\ ContainerOf(r, [kind |-> "typeParameter", name |-> Str("T")], <<>>)
                    /\ "optional" \notin DOMAIN Node(r).types[1]
            /\ r.args # <<>> /\ ~IsOptionalForm(X) =>
                    /\ ContainerOf(r, X, r.args)
                    /\ "optional" \notin DOMAIN Node(r).types[1]
            /\ r.args # <<>> /\ IsOptionalForm(X) =>
                    /\ ContainerOf(r, rest, r.args)
                    /\ Node(r).types[1].optional = TRUE

\* C9 witness: Container has run with [string | undefined] and, in another
\* call, without inputs
C9_Witness ==
    /\ \E k \in ContainerRuns : results[k].args = <<Union(<<T("string"), T("undefined")>>)>>
    /\ \E k \in ContainerRuns : results[k].args = <<>>

\* the members of the unions among ts and the other elements of ts, in order,
\* without never (the unions the model builds or is given have no union inside)
RECURSIVE Spread(_)
Spread(ts) ==
    IF ts = <<>> THEN <<>>
    ELSE LET t == Head(ts)
             NotNever(m) == Kind(m) # "never"
         IN  (IF Kind(t) = "union" THEN SelectSeq(t.types, NotNever)
              ELSE SelectSeq(<<t>>, NotNever)) \o Spread(Tail(ts))

\* the node pushed for the frame slots ts has no union and no never as direct
\* member, and its members are those of ts, nested ones in place, in order
FlatUnionOf(node, ts) ==
    /\ Kind(node) = "union" =>
            \A i \in DOMAIN node.types : Kind(node.types[i]) \notin {"union", "never"}
    /\ IF Spread(ts) = <<>> THEN node = Union(<<>>) ELSE MembersOf(node) = Spread(ts)

\* C10 for one step: the node a union opcode pushes, and the node the last
\* step of a distribute loop pushes, is flat over the frame it pops.
C10_UnionStep ==
    LET p == Top(State)
        op == CurOp(State)
        q == procs'[Len(procs')]
        loop == Frame(p).distributiveLoop
        ends == op = "distribute" /\ loop.on /\ loop.i >= Len(loop.types)
    IN  /\ op = "union" \/ ends
        /\ Len(procs') = Len(procs)
        /\ nextId' = nextId
        => FlatUnionOf(Slot(q, q.stackPointer), FrameSlots(p, p.stackPointer))

\* C10: the node pushed by the union opcode and by the end of a distribute
\* loop has no union as direct member; the members of nested unions are direct
\* members in their original order, and never members are dropped.
C10_UnionIsFlat == [][C10_UnionStep]_vars

\* C10 witness: a union opcode has popped a frame that holds a union and a never
\* and pushed a union of four members
C10_Witness ==
    \E k \in Ran :
        /\ ProgramOf(results[k].o) = "Maybe"
        /\ results[k].args = <<Union(<<T("number"), LitA, T("string")>>)>>
        /\ Kind(results[k].type) = "union"
        /\ Len(results[k].type.types) = 4

-----------------------------------------------------------------------------
(* Claims C11 to C20 *)

\* the innermost run before and after the step
Before == procs[Len(procs)]
After == procs'[Len(procs')]

\* the step is one opcode of the innermost run, and the run goes on after it
StepOf(names) ==
    /\ CurOp(State) \in names
    /\ call'.status = "running"
    /\ Len(procs') = Len(procs)

\* the entry on top of the innermost run's stack after the step, a reference followed
PushedNode == Deref(heap', Slot(After, After.stackPointer))

IsSingletonUnion(e) == Kind(e) = "union" /\ Len(e.types) = 1

\* C11: no run returns a union node with exactly one member, and no stack of
\* a run holds one: a one-member union is always replaced by its member.
C11_NoSingletonUnion ==
    /\ \A k \in Returned : ~IsSingletonUnion(Node(results[k]))
    /\ \A i \in DOMAIN procs : \A j \in 0 .. procs[i].stackPointer :
            ~IsSingletonUnion(Slot(procs[i], j))

\* whether the popped type is a two-member union of undefined and a type that
\* is neither undefined nor null, the latter at position i
IsOptionalOf(type, i) ==
    /\ Kind(type) = "union"
    /\ Len(type.types) = 2
    /\ i \in {1, 2}
    /\ Kind(type.types[3 - i]) = "undefined"
    /\ Kind(type.types[i]) \notin {"undefined", "null"}

\* C12 for one step of property or propertySignature, `type` the popped type
\* and `member` the pushed node
C12_PropertyStep ==
    StepOf({"property", "propertySignature"}) =>
        LET type == Slot(Before, Before.stackPointer)
            member == Slot(After, After.stackPointer)
        IN  /\ After.stackPointer = Before.stackPointer
            /\ member.kind = CurOp(State)
            /\ \A i \in {1, 2} :
                    IsOptionalOf(type, i) =>
                        member.type = type.types[i] /\ IsSet(member, "optional")
            /\ (\A i \in {1, 2} : ~IsOptionalOf(type, i)) =>
                    member.type = type /\ "optional" \notin DOMAIN member

\* C12: property and propertySignature reduce a two-member union of undefined
\* and one other non-null type T, in either order, to T with optional = true,
\* and keep every other popped type unchanged without setting optional.
C12_PropertyReducesOptional == [][C12_PropertyStep]_vars

\* the only member of the class a returned outcome stands for
OnlyMember(r) == Node(r).types[1]

\* C12 witness: undefined | string became an optional string property, and
\* string | null stayed a union without optional
C12_Witness ==
    /\ Len(results) = 2
    /\ Returned = {1, 2}
    /\ ProgramOf(results[1].o) = "EntityOptFirst"
    /\ OnlyMember(results[1]).type = T("string")
    /\ IsSet(OnlyMember(results[1]), "optional")
    /\ ProgramOf(results[2].o) = "EntityNull"
    /\ OnlyMember(results[2]).type = Union(<<T("string"), T("null")>>)
    /\ "optional" \notin DOMAIN OnlyMember(results[2])

HasVisibility(par) == "visibility" \in DOMAIN par

\* the parameters of the first method named constructor among `declared`
ConstructorParameters(declared) ==
    LET ctors == {i \in DOMAIN declared :
                    Kind(declared[i]) = "method" /\ declared[i].name = Str("constructor")}
    IN  IF ctors = {} THEN <<>>
        ELSE declared[CHOOSE i \in ctors : \A j \in ctors : i <= j].parameters

\* C13 for one step of class, `declared` the popped members
C13_ClassStep ==
    StepOf({"class"}) =>
        LET declared == popFrameResult(Before)
            visible == SelectSeq(ConstructorParameters(declared), HasVisibility)
            types == PushedNode.types
        IN  /\ Len(types) = Len(declared) + Len(visible)
            /\ SubSeq(types, 1, Len(declared)) = declared
            /\ \A i \in DOMAIN visible :
                    LET added == types[Len(declared) + i]
                    IN  /\ added.kind = "property"
                        /\ added.name = visible[i].name
                        /\ added.type = visible[i].type
                        /\ added.visibility = visible[i].visibility
                        /\ IsSet(added, "optional") = IsSet(visible[i], "optional")
                        /\ IsSet(added, "readonly") = IsSet(visible[i], "readonly")

\* C13: the class opcode keeps the declared members and adds after them one
\* property per constructor parameter that has a visibility, with the
\* parameter's name, type and visibility, optional and readonly exactly when
\* the parameter has them; a parameter without visibility adds nothing.
C13_ConstructorProjection == [][C13_ClassStep]_vars

\* C13 witness: User has returned with its two declared members followed by
\* the properties of name and id, and not of age
C13_Witness ==
    \E k \in Returned :
        /\ ProgramOf(results[k].o) = "User"
        /\ Len(Node(results[k]).types) = 4
        /\ Node(results[k]).types[3].name = Str("name")
        /\ Node(results[k]).types[4].name = Str("id")
        /\ IsSet(Node(results[k]).types[4], "readonly")
        /\ Len(Node(results[k]).types[2].parameters) = 3

\* whether a pack element is a JavaScript string holding encoded opcodes
IsEncoded(e) == "chars" \in DOMAIN e

\* the runs whose program was unpacked from the pack of their handle
Unpacked == {i \in DOMAIN procs : ~IsUndefined(procs[i].via.o)}

\* C14: unpack gives ops = code point - 33 of each character of the last
\* element, in order, and pool = the elements before it, when the last element
\* is a string; it gives ops = [] and pool = [] when it is not (the empty pack
\* included); decoding undoes the encoding char = opcode + 33.
C14_UnpackAsStated ==
    \A i \in Unpacked :
        LET pack == Packed(procs[i].forType)
            ops == procs[i].ops
            pool == procs[i].initialStack
        IN  /\ IF pack # <<>> /\ IsEncoded(pack[Len(pack)])
               THEN /\ Len(ops) = Len(pack[Len(pack)].chars)
                    /\ \A k \in DOMAIN ops : ops[k] = pack[Len(pack)].chars[k] - 33
                    /\ Len(pool) = Len(pack) - 1
                    /\ \A k \in DOMAIN pool : pool[k] = pack[k]
               ELSE ops = <<>> /\ pool = <<>>
            /\ unpack(Pack(pool, ops)) = [ops |-> ops, stack |-> pool]

\* C14 witness: a pack that ends in a number is being run with no opcodes and
\* no pool, after a pack that ends in a string was run with its five pool
\* entries and its opcodes
C14_Witness ==
    /\ \E i \in Unpacked :
            procs[i].forType = "Tail" /\ procs[i].ops = <<>> /\ procs[i].initialStack = <<>>
    /\ \E k \in Ran :
            ProgramOf(results[k].o) = "User" /\ Len(Node(results[k]).types) = 4

\* the programs of the model that are malformed: a pop on an empty stack, a
\* value without handler, an operand past the end of the pool
MalformedNames == {"Broken", "Skip", "BadPool"}

\* C15: a run of a malformed program ends in a failure: it does not return a type.
C15_MalformedProgramsFail ==
    \A k \in DOMAIN results :
        ProgramOf(results[k].o) \in MalformedNames => results[k].status = "thrown"

\* C16: Flag<T> = T extends string ? 1 : 0 distributed over 'a' | 'b' gives the
\* single node {literal: 1}.
C16_FlagOfTwoStringsIsOne ==
    \A k \in Ran :
        (ProgramOf(results[k].o) = "Flag" /\ results[k].args = <<Union(<<LitA, LitB>>)>>)
            => Node(results[k]) = Lit(Num(1))

\* the anchors whose fields differ after the step
ChangedAnchors == {id \in DOMAIN heap : heap'[id] # heap[id]}

\* the innermost run is at a class or objectLiteral opcode that is its last opcode
AtLastBuilder ==
    /\ CurOp(State) \in {"class", "objectLiteral"}
    /\ IsLastOp(Before)

\* the second and third part of C17 for one step: a class or objectLiteral
\* opcode at the last index pushes the anchor, at an earlier index it pushes a
\* fresh node and changes no anchor; a run that ends with its anchor on top
\* hands that very anchor to its caller
C17_AliasStep ==
    /\ StepOf({"class", "objectLiteral"}) =>
            IF IsLastOp(Before)
            THEN Slot(After, After.stackPointer) = Ref(Before.id)
            ELSE ~IsRef(Slot(After, After.stackPointer)) /\ heap' = heap
    /\ (AtEnd(State) /\ Slot(Before, Before.stackPointer) = Ref(Before.id)) =>
            IF Before.via.kind = "top"
            THEN /\ call'.status = "returned"
                 /\ results'[Len(results')].type = Ref(Before.id)
            ELSE /\ Len(procs') = Len(procs) - 1
                 /\ Slot(After, After.stackPointer) = Ref(Before.id)

\* C17 as stated, for one step: an anchor changes only in a class or
\* objectLiteral step at the last opcode index of its own run
C17_AsStatedStep ==
    /\ \A id \in ChangedAnchors : AtLastBuilder /\ Before.id = id
    /\ C17_AliasStep

\* C17 as stated: resultType is modified only by a class or objectLiteral
\* opcode executed at the last opcode index of the program.
C17_AnchorModifiedOnlyAtLastOpcode == [][C17_AsStatedStep]_vars

\* the fields that code other than the last class or objectLiteral opcode sets on an anchor
AnnotationFields == {"classType", "typeName", "typeArguments"}

\* the anchor id differs after the step in annotation fields only
OnlyAnnotated(id) ==
    \A f \in (DOMAIN heap[id] \cup DOMAIN heap'[id]) \ AnnotationFields :
        /\ f \in DOMAIN heap[id]
        /\ f \in DOMAIN heap'[id]
        /\ heap'[id][f] = heap[id][f]

C17_AmendedStep ==
    /\ \A id \in ChangedAnchors : (AtLastBuilder /\ Before.id = id) \/ OnlyAnnotated(id)
    /\ C17_AliasStep

\* C17: the kind and the members of resultType are assigned only by a class
\* or objectLiteral opcode at the last opcode index of its run (other steps
\* set at most classType, typeName and typeArguments on it); such a run
\* returns resultType itself, and a class or objectLiteral opcode at an
\* earlier index pushes a fresh node and leaves every anchor untouched.
C17_AnchorAssignedOnlyAtLastOpcode == [][C17_AmendedStep]_vars

\* C17 witness: Keys has returned, its objectLiteral at an earlier index having
\* left its anchor as constructed, and the class Entity has returned its anchor
C17_Witness ==
    /\ Len(results) = 2
    /\ Ran = {1, 2}
    /\ ProgramOf(results[1].o) = "Keys"
    /\ heap[results[1].first] = T("any")
    /\ results[2].o = [cls |-> "Entity"]
    /\ results[2].type = Ref(results[2].first)
    /\ Node(results[2]).kind = "class"
    /\ Node(results[2]).classType = "Entity"

\* the step is a return from a frame that call() pushed, with a value above
\* the frame's start
ReturnFromCall ==
    /\ StepOf({"return"})
    /\ ~IsUndefined(Frame(Before).called)
    /\ Before.stackPointer > Frame(Before).startIndex

\* the frames of the innermost run below its current one
Parents(p) == SubSeq(p.frames, 1, Len(p.frames) - 1)

\* C18 for one step.  A call opcode at index k with stack pointer s stores
\* the return address k + 2 at s + 1 and pushes a frame over the frames it
\* found; a return from a frame pushed by call() at stack pointer s, counter
\* c and back-offset off leaves its value v at s + 1, the caller's frames
\* current and c + off the next opcode index.
C18_CallReturnStep ==
    /\ StepOf({"call"}) =>
            /\ Frame(After).called =
                    [s |-> Before.stackPointer, c |-> Before.program + 1, off |-> 1]
            /\ Frame(After).startIndex = Before.stackPointer + 1
            /\ Parents(After) = Before.frames
            /\ After.stackPointer = Before.stackPointer + 1
            /\ Slot(After, After.stackPointer) = Num(Before.program + 2)
            /\ After.program = Before.ops[Before.program + 2]
    /\ ReturnFromCall =>
            LET at == Frame(Before).called
                v == Slot(Before, Before.stackPointer)
            IN  /\ After.stackPointer = at.s + 1
                /\ Slot(After, at.s + 1) = v
                /\ After.frames = Parents(Before)
                /\ After.program = at.c + at.off

\* C18: after call(target, off) at stack pointer s, frame F and counter c, the
\* matching return with v on top leaves stackPointer = s + 1, stack[s + 1] = v,
\* F current and the opcode at c + off next.
C18_CallReturnRoundTrip == [][C18_CallReturnStep]_vars

\* C18 witness: Called has returned string[], the element type being the
\* value its subroutine returned into the slot of the return address
C18_Witness ==
    \E k \in Ran :
        /\ ProgramOf(results[k].o) = "Called"
        /\ Node(results[k]) = [kind |-> "array", type |-> T("string")]

\* C19 for one step: a return from a frame that distribute (back-offset -1)
\* or mappedType (back-offset -2) pushed makes that opcode, at the index it
\* has, the next one, with the program and so its operands as they were, and
\* with the loop cursor of the frame that is current again switched on
C19_LoopReturnStep ==
    (ReturnFromCall /\ Frame(Before).called.off \in {-1, -2}) =>
        LET at == Frame(Before).called
            index == at.c + at.off
            name == OpName(After.ops[index + 1])
            cursor == IF name = "distribute" THEN Frame(After).distributiveLoop
                      ELSE Frame(After).mappedType
        IN  /\ After.program = index
            /\ After.ops = Before.ops
            /\ name = (IF at.off = -1 THEN "distribute" ELSE "mappedType")
            /\ at.c = index + (IF name = "distribute" THEN 1 ELSE 2)
            /\ cursor.on
            /\ cursor = (IF name = "distribute"
                         THEN Before.frames[Len(Before.frames) - 1].distributiveLoop
                         ELSE Before.frames[Len(Before.frames) - 1].mappedType)
            /\ cursor.i >= 1

\* C19: after every return from the subprogram that distribute or mappedType
\* entered, the next opcode is that same opcode at its index, which reads the
\* same operands and finds its loop cursor on the frame that is current again.
C19_LoopByReturn == [][C19_LoopReturnStep]_vars

\* C19 witness: after a distribute loop ran to its end in an earlier call, a
\* run is back at its mappedType opcode for the second time, the cursor on
C19_Witness ==
    /\ \E k \in Ran :
            /\ ProgramOf(results[k].o) = "Dist"
            /\ results[k].args = <<Union(<<LitA, LitB>>)>>
    /\ CurOp(State) = "mappedType"
    /\ Frame(Before).mappedType.on
    /\ Frame(Before).mappedType.i = 2

\* stack[startIndex + variables + 1 .. stackPointer] of the current frame of p
FrameSlice(p) ==
    LET from == Frame(p).startIndex + Frame(p).variables + 1
    IN  [k \in 1 .. (p.stackPointer + 1 - from) |-> Slot(p, from + k - 1)]

\* C20 for one step of an opcode that calls popFrame on the stack it finds and
\* pushes one node: the node is built from the slice, the stack pointer is
\* the frame's startIndex plus one, the parent frame is current, or the
\* initial frame still is, unchanged
C20_PopFrameStep ==
    StepOf({"objectLiteral", "class", "union"}) =>
        LET slice == FrameSlice(Before)
        IN  /\ After.stackPointer = Frame(Before).startIndex + 1
            /\ After.frames = (IF Len(Before.frames) > 1 THEN Parents(Before)
                               ELSE Before.frames)
            /\ CurOp(State) = "objectLiteral" => PushedNode.types = slice
            /\ CurOp(State) = "class" =>
                    SubSeq(PushedNode.types, 1, Len(slice)) = slice
            /\ CurOp(State) = "union" =>
                    PushedNode = unboxUnion(Union(flattenUnionTypes(slice)))

\* C20: popFrame returns the slots startIndex + variables + 1 .. stackPointer
\* of the current frame in order, sets stackPointer to the frame's startIndex
\* and makes the parent frame current; the initial frame stays current with
\* its variables and loop cursors unchanged.
C20_PopFrameAsStated == [][C20_PopFrameStep]_vars

\* C20 witness: an objectLiteral popped the initial frame, which holds one
\* variable, and a union popped a frame pushed by the frame opcode
C20_Witness ==
    /\ Len(results) = 2
    /\ Ran = {1, 2}
    /\ ProgramOf(results[1].o) = "Wrap"
    /\ results[1].args = <<T("string")>>
    /\ Len(Node(results[1]).types) = 1
    /\ Node(results[1]).types[1].type = T("string")
    /\ ProgramOf(results[2].o) = "Nested"
    /\ Len(Node(results[2]).types) = 3

-----------------------------------------------------------------------------
(* Claims C21 to C30 *)

\* the step starts a run: resolveRuntimeType or inlineCall has constructed a
\* Processor and run has reached its loop
Started == Len(procs') = Len(procs) + 1

\* the literal pool of the program a Processor was constructed for
PoolOf(p) == unpack(Packed(p.forType)).stack

\* what C21 says of a run that starts, but for the frame's startIndex
C21_StartedRun(p) ==
    /\ Len(p.frames) = 1
    /\ p.program = 0
    /\ Frame(p).variables = 0
    /\ Frame(p).inputs = p.initialInputs
    /\ Len(procs') = 1 => Frame(p).inputs = call'.args
    /\ p.stackPointer = Len(PoolOf(p)) - 1
    /\ \A i \in 1 .. Len(PoolOf(p)) : Slot(p, i - 1) = PoolOf(p)[i]

C21_AsStatedStep == Started => C21_StartedRun(After) /\ Frame(After).startIndex = -1

\* C21: when run starts executing opcodes, for any literal pool, the initial
\* frame has startIndex = -1 and inputs equal to the top-level type arguments,
\* and stackPointer equals the pool length - 1.
C21_InitialFrameStartsAtMinusOne == [][C21_AsStatedStep]_vars

C21_AmendedStep ==
    Started => C21_StartedRun(After) /\ Frame(After).startIndex = Len(PoolOf(After)) - 1

\* C21 as the code has it: when run starts executing opcodes the initial
\* frame has startIndex = stackPointer = pool length - 1 (so -1 only for an
\* empty pool), no variables and the type arguments as inputs, and the pool
\* fills the stack slots below.
C21_InitialFrameStartsAbovePool == [][C21_AmendedStep]_vars

\* C21 witness: a run has just started on a pool of two entries with one type
\* argument
C21_Witness ==
    /\ Len(procs) = 1
    /\ Before.program = 0
    /\ Before.forType = "Container"
    /\ Len(Before.initialStack) = 2
    /\ Before.stackPointer = 1
    /\ Frame(Before).startIndex = 1
    /\ Frame(Before).inputs = <<T("string")>>

\* C22 for one step of typeParameter or typeParameterDefault, `k` the frame's
\* variables and `input` the entry of frame.inputs at k before the step
C22_TypeParameterStep ==
    StepOf({"typeParameter", "typeParameterDefault"}) =>
        LET f == Frame(Before)
            k == f.variables
            input == InputAt(f, k)
            isDefault == CurOp(State) = "typeParameterDefault"
            default == Slot(Before, Before.stackPointer)
            name == PoolAt(Before, Num(Before.ops[Before.program + 2]))
            pushed == Slot(After, After.stackPointer)
            below == f.startIndex + k + (IF isDefault THEN 1 ELSE 0)
        IN  /\ Len(After.frames) = Len(Before.frames)
            /\ Frame(After).variables = k + 1
            /\ After.stackPointer = Before.stackPointer + (IF isDefault THEN 0 ELSE 1)
            /\ pushed = (IF ~IsUndefined(input) THEN input
                         ELSE IF isDefault THEN default
                         ELSE [kind |-> "typeParameter", name |-> name])
            /\ \A j \in 0 .. After.stackPointer - 1 : Slot(After, j) = Slot(Before, j)
            /\ Before.stackPointer = below =>
                    Slot(After, Frame(After).startIndex + 1 + k) = pushed

\* C22: typeParameterDefault pops the default pushed just before it and
\* pushes the supplied argument when frame.inputs has a defined entry at index
\* frame.variables, otherwise the default (stack height unchanged);
\* typeParameter pushes the supplied argument or, when none is defined, a
\* typeParameter node named by its pool operand; both increment
\* frame.variables by exactly 1, so that, in a frame that holds nothing but
\* its variables so far, the slot they fill is the one `loads 0 k` reads for
\* the k-th type parameter.
C22_TypeParametersFillTheirSlot == [][C22_TypeParameterStep]_vars

\* the property named n of the node a returned outcome stands for
MemberNamed(r, n) == Node(r).types[CHOOSE i \in Members(Node(r), n) : TRUE]

\* C22 witness: Def without argument got its default string, and Container
\* with the arguments undefined and boolean got a typeParameter node T for
\* data and boolean for label
C22_Witness ==
    /\ Len(results) = 2
    /\ Ran = {1, 2}
    /\ ProgramOf(results[1].o) = "Def"
    /\ results[1].args = <<>>
    /\ MemberNamed(results[1], "v").type = T("string")
    /\ ProgramOf(results[2].o) = "ContainerTL"
    /\ results[2].args = <<Undefined, T("boolean")>>
    /\ MemberNamed(results[2], "data").type = [kind |-> "typeParameter", name |-> Str("T")]
    /\ MemberNamed(results[2], "label").type = T("boolean")

\* the step is a mappedType opcode whose loop is over: it has popped its frame
\* and pushed the object literal
MappedLoopEnds ==
    /\ StepOf({"mappedType"})
    /\ Len(After.frames) = Len(Before.frames) - 1

\* the members of the object literal a step has pushed
PushedMembers == {PushedNode.types[i] : i \in DOMAIN PushedNode.types}

C23_MappedEndStep ==
    MappedLoopEnds =>
        /\ PushedNode.kind = "objectLiteral"
        /\ \A m \in PushedMembers : Kind(m.type) # "never"

\* C23: the object literal emitted at the end of a mappedType loop contains no
\* member, property signature or index signature, whose type is never: an
\* iteration whose mapper body yields never adds nothing.
C23_MappedTypeSkipsNever == [][C23_MappedEndStep]_vars

\* the modifier operand of the mappedType opcode the innermost run is at
ModifierOperand == Before.ops[Before.program + 3]

\* the keys the mappedType loop of the current frame went through
MappedKeys == {Frame(Before).mappedType.types[i] : i \in DOMAIN Frame(Before).mappedType.types}

\* what C24 says of one emitted member m: its form follows some key of the
\* loop, and it carries the modifier's bits
C24_MemberAsStated(m) ==
    /\ \E key \in MappedKeys :
            IF Kind(key) \in {"string", "number", "symbol"}
            THEN m.kind = "indexSignature" /\ m.index = key
            ELSE /\ m.kind = "propertySignature"
                 /\ Kind(key) = "literal"
                 /\ m.name = key.literal
    /\ HasBit(ModifierOperand, MappedModifierOptional) => IsSet(m, "optional")
    /\ HasBit(ModifierOperand, MappedModifierRemoveOptional) => ~IsSet(m, "optional")
    /\ HasBit(ModifierOperand, MappedModifierReadonly) => IsSet(m, "readonly")
    /\ HasBit(ModifierOperand, MappedModifierRemoveReadonly) => ~IsSet(m, "readonly")

C24_MappedEndStep == MappedLoopEnds => \A m \in PushedMembers : C24_MemberAsStated(m)

\* C24: for each key of a mappedType loop the emitted member is an index
\* signature with that key as index when the key is a string/number/symbol
\* node, and otherwise a property signature whose name is the key's literal
\* value; the modifier bits are applied to every emitted member: optional(+)
\* sets optional, optional(-) clears it, readonly(+) sets readonly,
\* readonly(-) clears it.
C24_MappedMembersCarryModifiers == [][C24_MappedEndStep]_vars

\* whether position i of the combination c holds a literal
IsLiteralAt(c, i) == i \in DOMAIN c /\ Kind(c[i]) = "literal"

\* the concatenation of the literals c[i], ..., c[j]
RECURSIVE RunText(_, _, _)
RunText(c, i, j) ==
    IF i > j THEN "" ELSE LiteralText(c[i].literal) \o RunText(c, i + 1, j)

\* the last position of the maximal run of literals that starts at i
RunEnd(c, i) ==
    CHOOSE j \in i .. Len(c) : (\A k \in i .. j : IsLiteralAt(c, k)) /\ ~IsLiteralAt(c, j + 1)

\* the members of the template from position i on: one literal per maximal
\* run of literals, placeholders as they are
RECURSIVE RunsFrom(_, _)
RunsFrom(c, i) ==
    IF i > Len(c) THEN <<>>
    ELSE IF IsLiteralAt(c, i)
    THEN <<Lit(Str(RunText(c, i, RunEnd(c, i))))>> \o RunsFrom(c, RunEnd(c, i) + 1)
    ELSE <<c[i]>> \o RunsFrom(c, i + 1)

\* the node C25 gives one combination
C25_NodeOf(c) ==
    IF \A i \in DOMAIN c : IsLiteralAt(c, i) THEN Lit(Str(RunText(c, 1, Len(c))))
    ELSE IF Len(c) = 1 /\ Kind(c[1]) = "string" THEN c[1]
    ELSE [kind |-> "templateLiteral", types |-> RunsFrom(c, 1)]

\* the members of a part: those of a union, the part itself otherwise
PartMembers(part) ==
    IF Kind(part) = "union" THEN {part.types[i] : i \in DOMAIN part.types} ELSE {part}

\* every choice of one member for each part
Combinations(parts) ==
    {c \in [DOMAIN parts -> UNION {PartMembers(parts[i]) : i \in DOMAIN parts}] :
        \A i \in DOMAIN parts : c[i] \in PartMembers(parts[i])}

\* C25 for one step of templateLiteral over a frame of at least one part
C25_TemplateStep ==
    StepOf({"templateLiteral"}) /\ FrameSlice(Before) # <<>> =>
        LET parts == FrameSlice(Before)
            expected == {C25_NodeOf(c) : c \in Combinations(parts)}
            n == Cardinality(Combinations(parts))
            pushed == Slot(After, After.stackPointer)
        IN  /\ After.stackPointer = Frame(Before).startIndex + 1
            /\ IF n = 1 THEN {pushed} = expected
               ELSE /\ Kind(pushed) = "union"
                    /\ Len(pushed.types) = n
                    /\ {pushed.types[i] : i \in DOMAIN pushed.types} = expected

\* C25: templateLiteral over a popped frame of parts pushes the unboxed union,
\* over every combination of the cartesian product of the parts' union
\* members, of: a single literal (the concatenation of all parts) when the
\* combination has only literals; the string node itself when the combination
\* is exactly one string placeholder; otherwise a templateLiteral node in
\* which each maximal run of adjacent literals is concatenated into one
\* literal and placeholders keep their position.
C25_TemplateLiteralAsStated == [][C25_TemplateStep]_vars

\* C25 witness: `a${1}${string}c` became the template 'a1', string, 'c', and
\* `${T}-${T}` over 'a' | string a union of one literal and three templates
C25_Witness ==
    /\ Len(results) = 2
    /\ Returned = {1, 2}
    /\ ProgramOf(results[1].o) = "TplFixed"
    /\ results[1].type =
            [kind |-> "templateLiteral",
             types |-> <<Lit(Str("a1")), T("string"), Lit(Str("c"))>>]
    /\ ProgramOf(results[2].o) = "TplPair"
    /\ results[2].args = <<Union(<<LitA, T("string")>>)>>
    /\ Kind(results[2].type) = "union"
    /\ Len(results[2].type.types) = 4
    /\ results[2].type.types[1] = Lit(Str("a-a"))
    /\ results[2].type.types[4] =
            [kind |-> "templateLiteral",
             types |-> <<T("string"), Lit(Str("-")), T("string")>>]

\* the positions of the members of `node` that have a name keyof collects
NamedPositions(node) ==
    {i \in DOMAIN node.types :
        Kind(node.types[i]) \in {"property", "propertySignature", "method", "methodSignature"}}

\* the k-th smallest element of the set of numbers s
NthOf(s, k) == CHOOSE i \in s : Cardinality({j \in s : j < i}) = k - 1

\* C26 for one step of keyof, `operand` the popped type
C26_KeyofStep ==
    StepOf({"keyof"}) =>
        LET operand == Deref(heap, Slot(Before, Before.stackPointer))
            pushed == Slot(After, After.stackPointer)
            at == IF Kind(operand) \in {"objectLiteral", "class"}
                  THEN NamedPositions(operand) ELSE {}
        IN  /\ After.stackPointer = Before.stackPointer
            /\ Kind(pushed) = "union"
            /\ Len(pushed.types) = Cardinality(at)
            /\ \A k \in 1 .. Cardinality(at) :
                    pushed.types[k] = Lit(operand.types[NthOf(at, k)].name)

\* C26: keyof pops one type and pushes one union whose members are literal
\* nodes carrying the names of the operand's property/propertySignature/
\* method/methodSignature members, in member order; index-signature members
\* contribute nothing and an operand that is neither object literal nor class
\* yields a union with no members.
C26_KeyofCollectsNames == [][C26_KeyofStep]_vars

\* C26 witness: keyof of an object literal with a property, an index
\* signature and a method gave 'a' | 'm', and keyof string the empty union
C26_Witness ==
    /\ Len(results) = 2
    /\ Returned = {1, 2}
    /\ ProgramOf(results[1].o) = "KeysIdx"
    /\ results[1].type = Union(<<Lit(Str("a")), Lit(Str("m"))>>)
    /\ ProgramOf(results[2].o) = "KeysNone"
    /\ results[2].type = Union(<<>>)

\* the value C27 gives member k of `members`: its default, or 0 when no
\* numeric value precedes it, or the numeric value nearest before it plus one
RECURSIVE C27_ValueOf(_, _)
C27_ValueOf(members, k) ==
    LET numeric == {j \in 1 .. k - 1 : IsNumber(C27_ValueOf(members, j))}
        nearest == CHOOSE j \in numeric : \A l \in numeric : l <= j
    IN  IF HasDefault(members[k]) THEN members[k].default.returns
        ELSE IF numeric = {} THEN Num(0)
        ELSE Num(C27_ValueOf(members, nearest).n + 1)

\* C27 for one step of the enum opcode over members of distinct names
C27_EnumStep ==
    StepOf({"enum"}) =>
        LET members == FrameSlice(Before)
            pushed == Slot(After, After.stackPointer)
        IN  /\ Kind(pushed) = "enum"
            /\ Len(pushed.enum) = Len(members)
            /\ \A k \in DOMAIN members :
                    /\ pushed.enum[k].name = members[k].name
                    /\ pushed.enum[k].value = C27_ValueOf(members, k)
                    /\ pushed.values[k] = C27_ValueOf(members, k)

\* C27: the enum opcode assigns to each member without a default the value 0
\* if no numeric value precedes it and otherwise the last assigned-or-explicit
\* numeric value + 1; a member with a numeric default v gets v and makes the
\* next automatic value v + 1; a member with a string default gets that
\* string and leaves the counter unchanged.
C27_EnumValuesAsStated == [][C27_EnumStep]_vars

\* C27 witness: enum { A, B = 5, C, D = 'x', F } got 0, 5, 6, 'x', 7 and
\* enum { S = 's', Z, N = 0, O } got 's', 0, 0, 1
C27_Witness ==
    /\ Len(results) = 2
    /\ Returned = {1, 2}
    /\ ProgramOf(results[1].o) = "EnumMixed"
    /\ results[1].type.values = <<Num(0), Num(5), Num(6), Str("x"), Num(7)>>
    /\ ProgramOf(results[2].o) = "EnumZero"
    /\ results[2].type.values = <<Str("s"), Num(0), Num(0), Num(1)>>

\* C28 for one step: an enum opcode leaves the program counter behind its
\* operand, and a returned Entity has the one member p, of an enum type
C28_EnumOperandStep ==
    /\ StepOf({"enum"}) => After.program = Before.program + 2
    /\ \A k \in DOMAIN results' :
            results'[k].status = "returned" /\ ProgramOf(results'[k].o) = "EntityEnum" =>
                LET node == Deref(heap', results'[k].type)
                IN  /\ node.kind = "class"
                    /\ \E i \in DOMAIN node.types :
                            /\ Kind(node.types[i]) = "property"
                            /\ node.types[i].name = Str("p")
                            /\ Kind(node.types[i].type) = "enum"

\* C28: the enum opcode consumes exactly one operand from the opcode stream
\* (the pool index of the enum producer), so in the program emitted for
\* class Entity { p: MyEnum } (enum 0, property 1, class) the value following
\* enum is never executed as an opcode and property p gets an enum type.
C28_EnumConsumesItsOperand == [][C28_EnumOperandStep]_vars

\* the argument count of the inlineCall opcode the innermost run is at
ArgumentCount == Before.ops[Before.program + 3]

\* the k-th argument pushed for the inlineCall, k counted from 0
PushedArgument(k) == Slot(Before, Before.stackPointer - ArgumentCount + 1 + k)

\* C29 for one step of inlineCall that starts the run of the referenced
\* program: After is the new run, Before the caller
C29_InlineCallStep ==
    CurOp(State) = "inlineCall" /\ Started =>
        /\ Len(After.initialInputs) = ArgumentCount
        /\ \A k \in 0 .. ArgumentCount - 1 :
                After.initialInputs[k + 1] =
                    (IF /\ Kind(PushedArgument(k)) = "never"
                        /\ k + 1 \in DOMAIN Before.initialInputs
                        /\ Truthy(Before.initialInputs[k + 1])
                     THEN Before.initialInputs[k + 1]
                     ELSE PushedArgument(k))

\* C29: inlineCall with argumentCount n passes the n popped types to the
\* referenced program in push order (the first pushed argument is inputs[0]);
\* an argument at position k that was not supplied (never) is replaced by the
\* caller's initialInputs[k] when that exists, for every k in 0..n-1.
C29_InlineCallInputsInPushOrder == [][C29_InlineCallStep]_vars

\* C30 for one step of moveFrame, v the value on top before it
C30_MoveFrameStep ==
    StepOf({"moveFrame"}) =>
        LET v == Slot(Before, Before.stackPointer)
        IN  /\ After.frames = (IF Len(Before.frames) > 1 THEN Parents(Before)
                               ELSE Before.frames)
            /\ After.stackPointer = Frame(Before).startIndex + 1
            /\ Slot(After, After.stackPointer) = v

\* C30: moveFrame pops the top value v, pops the current frame and pushes v
\* again: afterwards the parent frame is current, stackPointer = (popped
\* frame's startIndex) + 1 and the top of the stack is v, for every value v
\* that can be on the stack, including the boolean false pushed by extends.
C30_MoveFramePreservesTop == [][C30_MoveFrameStep]_vars

-----------------------------------------------------------------------------
(* Claims C31 to C40 *)

\* the startIndex of the frames of p, outermost first
StartIndexes(p) == [i \in DOMAIN p.frames |-> p.frames[i].startIndex]

\* the operands of the opcode p is at
Operand(p, k) == p.ops[p.program + 1 + k]

\* the infer node an extends step binds: the right operand, or its element type
\* when both operands are arrays
BoundNode ==
    LET right == Slot(Before, Before.stackPointer)
        left == Slot(Before, Before.stackPointer - 1)
    IN  IF Kind(right) # "array" THEN right
        ELSE IF Kind(left) = "array" THEN right.type ELSE Undefined

\* the type an extends step binds it to: the left operand, or its element type
BoundType ==
    LET right == Slot(Before, Before.stackPointer)
        left == Slot(Before, Before.stackPointer - 1)
    IN  IF Kind(right) = "array" THEN left.type ELSE left

\* the slot C31 names for an infer node: (k-th ancestor of F).startIndex + 1 + s
C31_SlotOf(node) ==
    node.chain[Len(node.chain) - node.frameOffset] + 1 + node.stackEntryIndex

\* C31 for one step: infer k s in frame F pushes a node that holds F and (k, s);
\* an extends that binds such a node writes the bound type into the slot, leaves
\* every other slot but the one of its own result, and the frames, as they were;
\* a loads k s in frame F after the binding pushes the bound type
C31_InferStep ==
    /\ StepOf({"infer"}) =>
        /\ PushedNode.kind = "infer"
        /\ PushedNode.chain = StartIndexes(Before)
        /\ PushedNode.frameOffset = Operand(Before, 1)
        /\ PushedNode.stackEntryIndex = Operand(Before, 2)
        /\ After.stackPointer = Before.stackPointer + 1
    /\ StepOf({"extends"}) /\ Kind(BoundNode) = "infer" =>
        /\ Len(BoundNode.chain) - BoundNode.frameOffset >= 1
        /\ Slot(After, C31_SlotOf(BoundNode)) = BoundType
        /\ \A j \in DOMAIN Before.stack :
                j \notin {C31_SlotOf(BoundNode), After.stackPointer} =>
                    After.stack[j] = Before.stack[j]
        /\ After.stackPointer = Before.stackPointer - 1
        /\ After.frames = Before.frames
    /\ StepOf({"loads"}) /\ ~IsUndefined(Before.bound) =>
        LET node == Before.bound.node
        IN  (/\ StartIndexes(Before) = node.chain
             /\ Operand(Before, 1) = node.frameOffset
             /\ Operand(Before, 2) = node.stackEntryIndex)
            => Slot(After, After.stackPointer) = Before.bound.type

\* C31: the setter of an infer node created by `infer k s` in frame F writes the
\* bound type into stack slot (k-th ancestor of F).startIndex + 1 + s, changes
\* no other slot and does not move stackPointer; a `loads k s` executed
\* afterwards in frame F pushes exactly that bound type, for every k >= 0.
C31_InferBindsItsSlot == [][C31_InferStep]_vars

\* C31 happens: a run bound a type through a chain of more than four links and
\* loaded it, and a run bound the element type of an array
C31_Witness ==
    /\ \E i \in DOMAIN procs :
        /\ ~IsUndefined(procs[i].bound)
        /\ procs[i].bound.node.frameOffset = 6
        /\ procs[i].forType = "InferUp6"
        /\ AtEnd(State)
        /\ Slot(procs[i], procs[i].stackPointer) = LitA
    /\ \E k \in Returned :
        /\ results[k].o = [pack |-> "InferElem"]
        /\ results[k].args = <<[kind |-> "array", type |-> T("string")]>>
        /\ Node(results[k]) = T("string")

\* the node resolvePacked(name, args) gives when nothing has been resolved before
FirstResolution(name, args) ==
    LET S == RunToEnd(Begin(Fresh, [pack |-> name], args, "none"))
    IN  Deref(S.heap, S.results[1].type)

\* the programs C32 is checked for: generic, and their node holds no reference
C32_Programs == {"Container", "Maybe"}

\* C32: resolvePacked(p, args) returns the type of p instantiated with the args
\* of that very call, whatever earlier resolutions of the same p have taken
\* place: the result depends only on p and args.
C32_ResultDependsOnlyOnArguments ==
    \A k \in Returned :
        /\ isPack(results[k].o)
        /\ results[k].o.pack \in C32_Programs
        /\ results[k].reg = "none"
        => Node(results[k]) = FirstResolution(results[k].o.pack, results[k].args)

\* the node a registry hit handed out during the run that gave the outcome r:
\* the self-reference inside the returned node
HandedOut(r) ==
    LET name == ProgramOf(r.o)
    IN  CASE name \in {"Tree", "TreeThunk"} -> Node(r).types[2].type.type
          [] name \in {"LoopCall", "LoopThunk"} -> Node(r).types[1].type
          [] name = "SelfArr" -> Node(r).type
          [] name = "Json" -> Node(r).types[2].type

\* the self-referential programs, whose run with a registry has a registry hit
SelfReferring == {"Tree", "TreeThunk", "SelfArr", "Json"}

\* C33: every node handed out by a registry hit for a running program P is,
\* once P's run has completed, the same object as the type returned for P,
\* whatever P's final opcode is (objectLiteral for Tree, array for SelfArr,
\* union for Json).
C33_HitIsTheReturnedNode ==
    \A k \in Ran :
        /\ ProgramOf(results[k].o) \in SelfReferring
        /\ results[k].reg = "user"
        => HandedOut(results[k]) = results[k].type

\* C34: if processor.run raises an error inside resolveRuntimeType(p, args,
\* registry), p is no longer registered when the error leaves resolveRuntimeType,
\* so a later resolveRuntimeType of p with the same registry evaluates p again
\* instead of returning the anchor of the failed run.
C34_FailedRunIsUnregistered ==
    /\ call.status = "thrown" /\ call.reg = "user" =>
            registry.user[ProgramOf(call.o)] = 0
    /\ \A k \in DOMAIN results : \A j \in DOMAIN results :
            /\ k < j
            /\ results[k].status = "thrown"
            /\ results[k].reg = "user"
            /\ results[j].reg = "user"
            /\ results[j].o = results[k].o
            => results[j].last > results[j].first

\* the opcodes whose handler starts with a pop
PopsFirst == {"array", "extends", "return", "moveFrame"}

\* C35 for one step: no run is left with stackPointer below -1; a pop at
\* stackPointer < 0 throws 'Stack empty' and changes neither stackPointer nor
\* the stack, and an opcode that starts with such a pop ends the call with it
C35_PopStep ==
    /\ \A i \in DOMAIN procs' : procs'[i].stackPointer >= -1
    /\ \A i \in DOMAIN procs :
            procs[i].stackPointer < 0 =>
                /\ pop(procs[i]).err = "Stack empty"
                /\ pop(procs[i]).stackPointer = procs[i].stackPointer
                /\ pop(procs[i]).stack = procs[i].stack
    /\ (CurOp(State) \in PopsFirst /\ procs # procs') =>
            (Before.stackPointer < 0 =>
                /\ call'.status = "thrown"
                /\ results'[Len(results')].error = "Stack empty")

\* C35: for any opcode sequence, stackPointer is >= -1 at every opcode boundary,
\* and a pop attempted while stackPointer < 0 raises 'Stack empty' and leaves
\* stackPointer and the stack unchanged.
C35_StackPointerStaysAboveMinusTwo == [][C35_PopStep]_vars

\* C35 happens: a pop on an empty stack ended a call, and a return in the first
\* frame of a program without pool left its value under stackPointer -1
C35_Witness ==
    /\ \E k \in DOMAIN results : results[k].error = "Stack empty"
    /\ \E k \in Returned :
            /\ ProgramOf(results[k].o) = "ReturnTop"
            /\ Node(results[k]) = T("string")

\* the operands of inline (1) and inlineCall (2), and the arguments inlineCall pops
OperandsOf(name) == IF name = "inline" THEN 1 ELSE 2
PoppedBy(name) == IF name = "inline" THEN 0 ELSE ArgumentCount

\* the stacks of c and c1 differ at most in slot i
SameButSlot(c, c1, i) == \A j \in DOMAIN c.stack : j # i => c1.stack[j] = c.stack[j]

\* C36 for one step.  inline / inlineCall that start a run: the caller keeps its
\* frames and slots, has popped the arguments and eaten the operands, and the
\* new Processor is another one with one frame above its own pool.  inline /
\* inlineCall served without a run, and the return of a run they started: the
\* caller has one more entry, is past the opcode, and its frames are as before.
\* Any other step of a nested run leaves the Processors below it as they are.
C36_InlineStep ==
    LET name == CurOp(State)
        c == procs[Len(procs)]
    IN  /\ (name \in {"inline", "inlineCall"} /\ Len(procs') = Len(procs) + 1) =>
            LET c1 == procs'[Len(procs)]
                child == procs'[Len(procs')]
            IN  /\ c1.frames = c.frames
                /\ c1.stack = c.stack
                /\ c1.stackPointer = c.stackPointer - PoppedBy(name)
                /\ c1.program = c.program + OperandsOf(name)
                /\ child.id # c.id
                /\ Len(child.frames) = 1
                /\ child.stackPointer = Len(child.initialStack) - 1
        /\ (name \in {"inline", "inlineCall"} /\ StepOf({name}) /\ procs' # procs) =>
            /\ After.frames = c.frames
            /\ After.stackPointer = c.stackPointer - PoppedBy(name) + 1
            /\ After.program = c.program + OperandsOf(name) + 1
            /\ SameButSlot(c, After, After.stackPointer)
        /\ (/\ AtEnd(State)
            /\ c.via.kind \in {"inline", "inlineCall"}
            /\ Len(procs') = Len(procs) - 1) =>
            LET caller == procs[Len(procs) - 1]
            IN  /\ After.frames = caller.frames
                /\ After.stackPointer = caller.stackPointer + 1
                /\ After.program = caller.program + 1
                /\ SameButSlot(caller, After, After.stackPointer)
        /\ (Running(State) /\ Len(procs') >= Len(procs)) =>
            \A i \in 1 .. Len(procs) - 1 : procs'[i] = procs[i]

\* C36: inline and inlineCall evaluate the referenced program in a separate
\* Processor with its own stack and frames: in the calling Processor they change
\* only the stack (inline: height + 1; inlineCall with n arguments: height + 1 - n)
\* and advance the program counter past their operands; the calling frame chain,
\* frame.variables, frame.inputs and loop cursors are unchanged.
C36_InlineLeavesCallerFrames == [][C36_InlineStep]_vars

\* C36 happens: an inlineCall with two arguments, made inside a frame chain of
\* the caller, has returned into the caller; an inline has returned as well
C36_Witness ==
    /\ \E k \in Returned :
        /\ ProgramOf(results[k].o) = "UseTL"
        /\ results[k].last > results[k].first + 1
    /\ \E k \in Returned :
        /\ ProgramOf(results[k].o) \in {"Tree", "TreeThunk"}
        /\ results[k].last > results[k].first + 1


(***************************************************************************)
(* The injector: the calls on record are gets[1], gets[2], ...             *)
(***************************************************************************)

\* the k-th call was a get that returned an object
GotObject(k) == gets[k].op = "get" /\ gets[k].error = "" /\ ~IsUndefined(gets[k].v)

\* the object the k-th call returned: which provider of which injector built it
Built(k) == instances[gets[k].v.obj]

\* the provider of the token in the injector is not transient
NonTransient(injector, token) ==
    Provides(injector, token) /\ ~ProviderOf(injector, token).transient

\* the injector's retriever was rebuilt by a call after the j-th and before the k-th
Rebuilt(injector, j, k) ==
    \E m \in j + 1 .. k - 1 : gets[m].op = "addProviders" /\ gets[m].injector = injector

\* the factory of the injector's provider of the token ran during the k-th call
RanIn(k, injector, token) ==
    \E a \in DOMAIN gets[k].ran :
        gets[k].ran[a][1] = injector /\ gets[k].ran[a][2] = token

\* C37 (as stated): every get of a token returns the same instance, whichever of
\* the injectors sharing the provider is asked, and the factory of a non-transient
\* provider runs at most once over all calls; two gets of a transient provider
\* return different instances
C37_SingletonFactoryRunsOnce ==
    /\ \A j, k \in DOMAIN gets :
        (j < k /\ gets[j].op = "get" /\ gets[k].op = "get"
               /\ gets[j].token = gets[k].token
               /\ \E i \in Injectors : NonTransient(i, gets[j].token))
            => /\ gets[j].v = gets[k].v
               /\ \A i \in Injectors :
                    ~(RanIn(j, i, gets[j].token) /\ RanIn(k, i, gets[j].token))
    /\ \A j, k \in DOMAIN gets :
        (j < k /\ GotObject(j) /\ GotObject(k) /\ gets[j].token = gets[k].token
               /\ ~NonTransient(Built(k).by, Built(k).of))
            => gets[j].v # gets[k].v

\* C37 (amended): while addProviders does not rebuild the retriever of the injector
\* holding a non-transient provider, all gets that return an instance of that
\* provider return the same one, whichever injector sharing it is asked, and once
\* its factory has produced an instance the factory is not run again; a get of a
\* transient provider runs the factory and returns an instance no earlier get returned
C37_SingletonUntilRebuilt ==
    /\ \A j, k \in DOMAIN gets :
        (j < k /\ GotObject(j) /\ GotObject(k)
               /\ Built(j).of = Built(k).of /\ Built(j).by = Built(k).by
               /\ NonTransient(Built(k).by, Built(k).of)
               /\ ~Rebuilt(Built(k).by, j, k))
            => gets[j].v = gets[k].v
    /\ \A j, k \in DOMAIN gets : \A a \in DOMAIN gets[j].ran :
        (j < k /\ gets[j].ran[a][3] = "instance"
               /\ NonTransient(gets[j].ran[a][1], gets[j].ran[a][2])
               /\ ~Rebuilt(gets[j].ran[a][1], j, k))
            => ~RanIn(k, gets[j].ran[a][1], gets[j].ran[a][2])
    /\ \A k \in DOMAIN gets : \A a, b \in DOMAIN gets[k].ran :
        (a < b /\ gets[k].ran[a][3] = "instance"
               /\ NonTransient(gets[k].ran[a][1], gets[k].ran[a][2]))
            => ~(gets[k].ran[b][1] = gets[k].ran[a][1] /\ gets[k].ran[b][2] = gets[k].ran[a][2])
    /\ \A k \in DOMAIN gets :
        (GotObject(k) /\ ~NonTransient(Built(k).by, Built(k).of))
            => /\ RanIn(k, Built(k).by, Built(k).of)
               /\ \A j \in 1 .. k - 1 : gets[j].v # gets[k].v

\* C37 witness: both injectors were asked for the shared Connection and returned the
\* same object, and two gets of the transient Temp returned different objects
C37_Witness ==
    /\ \E j, k \in DOMAIN gets :
        /\ j < k /\ GotObject(j) /\ GotObject(k)
        /\ gets[j].token = "Connection" /\ gets[k].token = "Connection"
        /\ gets[j].injector # gets[k].injector
        /\ gets[j].v = gets[k].v
    /\ \E j, k \in DOMAIN gets :
        /\ j < k /\ GotObject(j) /\ GotObject(k)
        /\ gets[j].token = "Temp" /\ gets[k].token = "Temp"
        /\ gets[j].v # gets[k].v


\* the tokens the factory of the token's provider is called with
DepsOf(token) ==
    UNION {{p.deps[d] : d \in DOMAIN p.deps} :
            p \in {ProviderOf(i, token) : i \in {i \in Injectors : Provides(i, token)}}}

\* the tokens reached from `tokens` through at most n more dependencies
RECURSIVE DependsOn(_, _)
DependsOn(tokens, n) ==
    IF n = 0 THEN tokens
    ELSE DependsOn(tokens \cup UNION {DepsOf(t) : t \in tokens}, n - 1)

\* the tokens whose provider's dependencies form a cycle through the token
CyclicTokens == {t \in Tokens : t \in DependsOn(DepsOf(t), Cardinality(Tokens))}

Cyclic(token) == token \in CyclicTokens

\* the tokens the injector or one of its parents provides
Available(injector) ==
    {t \in Tokens : Provides(injector, t)
                    \/ \E a \in DOMAIN ParentsOf(injector) : Provides(ParentsOf(injector)[a], t)}

\* for every injector, the tokens outside every cycle that it can build: the factories
\* of the token's provider and of everything it depends on return an instance
SoundTokens ==
    [injector \in Injectors |->
        {token \in Tokens :
            \A t \in DependsOn({token}, Cardinality(Tokens)) :
                /\ ~Cyclic(t)
                /\ t \in Available(injector)
                /\ \A i \in Injectors : Provides(i, t) => ProviderOf(i, t).yields = "instance"}]

Sound(injector, token) == token \in SoundTokens[injector]

\* C38: a get of a token whose dependencies form a cycle raises
\* CircularDependencyError; right after a get that raised it every creating flag is
\* false and CircularDetector is empty; and every later get, on the same injector, of
\* a token outside the cycles returns an instance
C38_CycleIsReportedAndCleared ==
    /\ \A k \in DOMAIN gets :
        (gets[k].op = "get" /\ Cyclic(gets[k].token)
                            /\ gets[k].token \in Available(gets[k].injector))
            => gets[k].error = "CircularDependencyError"
    /\ (gets # <<>> /\ gets[Len(gets)].error = "CircularDependencyError")
            => /\ \A i \in Injectors : \A t \in Tokens : ~creating[i][t]
               /\ CircularDetector = <<>>
    /\ \A j, k \in DOMAIN gets :
        (j < k /\ gets[j].error = "CircularDependencyError" /\ gets[k].op = "get"
               /\ gets[k].injector = gets[j].injector
               /\ Sound(gets[k].injector, gets[k].token))
            => GotObject(k)

\* C38 witness: a get of CycA, which depends on CycB, which depends on CycA, raised
\* CircularDependencyError, and a later get on the same injector returned a Connection
C38_Witness ==
    \E j, k \in DOMAIN gets :
        /\ j < k
        /\ gets[j].token = "CycA" /\ gets[j].error = "CircularDependencyError"
        /\ gets[k].injector = gets[j].injector
        /\ gets[k].token = "Connection" /\ GotObject(k)

\* C39: a get raises CircularDependencyError only for a token whose provider
\* dependencies form a cycle
C39_CircularOnlyForCycles ==
    \A k \in DOMAIN gets :
        gets[k].error = "CircularDependencyError" => Cyclic(gets[k].token)


(***************************************************************************)
(* The file store                                                          *)
(***************************************************************************)

\* removeFiles removes the content of the md5 in this step
RemovesContent(md5) ==
    /\ tasks.removeFiles.pc = "remove"
    /\ md5 \in tasks.removeFiles.deletes
    /\ md5 \notin tasks'.removeFiles.deletes

\* C40: whenever removeFiles removes the content of an md5, no File record with that
\* md5 is in the database, also when steps of registerFile and write come between
\* the steps of removeFiles
C40_RemovesOnlyUnlinkedContent ==
    [][\A md5 \in Md5s : RemovesContent(md5) => Linked(md5) = {}]_vars

=============================================================================
